---- MODULE Spec2Model ----
(***************************************************************************)
(* The MProc front-end parser (mproc/parser): a character reader, the      *)
(* piece lexer Parser.read_piece, the token classifier Parser.parse_token  *)
(* and the stack of parse contexts of contexts.py driven by Parser.run.    *)
(*                                                                         *)
(* A character is a one-character string, a piece is a sequence of         *)
(* characters, the end-of-file marker is the empty string (file.read(1)    *)
(* at the end of the file) and Python's None delimiter is NoDelim.         *)
(* The file is revealed lazily: Feed appends the next fragment of the file *)
(* when the lexer needs a character that is not known yet, and CloseFile   *)
(* fixes the end of the file.  Every behaviour is the parse of one file,   *)
(* the concatenation of the fragments fed before CloseFile.  SpecFile is    *)
(* run() on a file known from the start, SpecTok is parse_token on a piece.*)
(***************************************************************************)
EXTENDS Integers, Sequences, FiniteSets, TLC

VARIABLES
    input,          \* the characters of the file known so far
    eof,            \* TRUE once the file is known to end after input
    pos,            \* number of characters file.read(1) has returned
    stack,          \* Parser.stack, the contexts, bottom first
    root,           \* RootContext.root, the tree being built
    line_start, symbol_start,   \* Parser.line_start, Parser.symbol_start
    line_end, symbol_end,       \* Parser.line_end, Parser.symbol_end
    inc_line,       \* Parser.inc_line
    status,         \* "running", "returned", "error" (exit after a diagnostic), "crash"
    diagnostic,     \* the MProcParseError written to stderr, or None
    exit_status,    \* the process exit status once the run has exited, or -1
    returned,       \* the tree run() returned, or None
    fed,            \* the fragments of the file revealed so far
    piece_in,       \* the piece handed to parse_token, or the last one read_piece gave
    token_out       \* what parse_token gave for it, or the delimiter of read_piece

vars == <<input, eof, pos, stack, root, line_start, symbol_start, line_end,
          symbol_end, inc_line, status, diagnostic, exit_status, returned,
          fed, piece_in, token_out>>

(***************************************************************************)
(* Bounds of the model.                                                    *)
(***************************************************************************)
MaxFrags == 4        \* fragments of one file
MaxKeywords == 3     \* fragments of one file of block headers and end-words
MaxPieceLen == 3     \* length of the pieces enumerated for parse_token
MaxFileFrags == 5    \* fragments of a file that is parsed in one go
MaxListFrags == 6    \* fragments of a file of assignments and comma lists
MaxCallFrags == 6    \* fragments of a file of calls
MaxNamedFrags == 6   \* fragments of a file of calls with named arguments
MaxExpressionFrags == 4 \* fragments of a file of keywords with an expression
MaxLhsFrags == 5 \* fragments of a file of call parentheses with `=`
MaxDeliveryFrags == 5 \* fragments of a file of statements in and out of a block
MaxHeaderFrags == 4  \* fragments of a file of function headers
MaxRawFrags == 5     \* fragments of a file of raw blocks
MaxBlockLines == 5   \* lines of a file of simple blocks
MaxReadLen == 5      \* characters of a file that is read symbol by symbol
MaxLexLen == 5       \* characters of a file that is read piece by piece
MaxDispatchFrags == 2 \* fragments of a file of flow operators
MaxSwitchLines == 4   \* lines of a file of block headers and switch words
MaxBranchLines == 5  \* lines of a file of if and loop blocks

----------------------------------------------------------------------------
(* Values *)

EOF == ""
NoDelim == "None"
More == "More"      \* the lexer asked for a character that is not known yet
None == [type |-> "None"]

\* string.whitespace without the newline (the vertical tab cannot be written here)
whitespace_set == {" ", "\t", "\r", "\f"}

ContextDelimiters == whitespace_set \cup {"#", "\n", "=", ",", "(", ")"} \cup {EOF}

\* a local variable: v is computed once and handed to the code that uses it
Let(v, Op(_)) == Op(v)

Last(s) == s[Len(s)]
Front(s) == SubSeq(s, 1, Len(s) - 1)

----------------------------------------------------------------------------
(* Syntax tree nodes (mproc/syntax_tree) *)

Node0(t, line, symbol) == [type |-> t, line |-> line, symbol |-> symbol]
Root(line, symbol, body) == [type |-> "Root", line |-> line, symbol |-> symbol, body |-> body]
Token(line, symbol, name) == [type |-> "Token", line |-> line, symbol |-> symbol, name |-> name]
NumericLiteral(line, symbol, value) ==
    [type |-> "NumericLiteral", line |-> line, symbol |-> symbol, value |-> value]
StringLiteral(line, symbol, value) ==
    [type |-> "StringLiteral", line |-> line, symbol |-> symbol, value |-> value]
Assignment(line, symbol, lhs, rhs) ==
    [type |-> "Assignment", line |-> line, symbol |-> symbol, lhs |-> lhs, rhs |-> rhs]
List(line, symbol, expressions) ==
    [type |-> "List", line |-> line, symbol |-> symbol, expressions |-> expressions]
Call(line, symbol, called, arguments) ==
    [type |-> "Call", line |-> line, symbol |-> symbol, called |-> called,
     arguments |-> arguments]
FunctionDefinition(line, symbol, call, returns) ==
    [type |-> "FunctionDefinition", line |-> line, symbol |-> symbol, call |-> call,
     returns |-> returns]
ExpressionNode(t, line, symbol, expression) ==
    [type |-> t, line |-> line, symbol |-> symbol, expression |-> expression]
BodyNode(t, line, symbol, body) ==
    [type |-> t, line |-> line, symbol |-> symbol, body |-> body]
TwoBodyNode(t, line, symbol, expression, body, body2) ==
    [type |-> t, line |-> line, symbol |-> symbol, expression |-> expression,
     body |-> body, body2 |-> body2]
DefinitionNode(t, line, symbol, definition, body) ==
    [type |-> t, line |-> line, symbol |-> symbol, definition |-> definition,
     body |-> body]

----------------------------------------------------------------------------
(* Exceptions (mproc/parser/exceptions.py) *)

ParseErrorKinds ==
    {"MProcParseError", "MProcStructureError", "MProcInvalidFlowOperatorError",
     "MProcTokenExpectedError", "MProcEOFError", "MProcInvalidStringLiteral"}

\* Parser.exception: the error is located at the start of the piece
exception(p, kind, arg) ==
    [type |-> "Raise", kind |-> kind, line |-> p.line_start, symbol |-> p.symbol_start,
     arg |-> arg]

\* Parser.exception_end: the error is located at the last character read
exception_end(p, kind, arg) ==
    [type |-> "Raise", kind |-> kind, line |-> p.line_end, symbol |-> p.symbol_end,
     arg |-> arg]

\* an exception that is not an MProcParseError (TypeError, AttributeError, AssertionError)
PythonError(kind) == [type |-> "Raise", kind |-> kind, line |-> 0, symbol |-> 0, arg |-> <<>>]

Raise(p, e) == [p EXCEPT !.exc = e]

Raised(p) == p.exc # None

----------------------------------------------------------------------------
(* Source reader and piece lexer (mproc/parser/parser.py) *)

\* a read_symbol that moves to the next line as soon as it has read the newline
read_symbol_EagerLine(p) ==
    Let(IF p.pos < Len(p.input) THEN p.input[p.pos + 1]
        ELSE IF p.eof THEN EOF ELSE More,
        LAMBDA c :
          IF c = More THEN [p |-> p, c |-> More]
          ELSE [p |-> [p EXCEPT !.line_end = IF c = "\n" THEN p.line_end + 1
                                             ELSE p.line_end,
                                !.symbol_end = IF c = "\n" THEN 0
                                               ELSE p.symbol_end
                                                    + (IF c # EOF THEN 1 ELSE 0),
                                !.inc_line = (c = "\n"),
                                !.pos = IF c # EOF THEN p.pos + 1 ELSE p.pos],
                c |-> c])

\* a read_symbol that counts the end of the file as a column
read_symbol_CountEOF(p) ==
    Let(IF p.pos < Len(p.input) THEN p.input[p.pos + 1]
        ELSE IF p.eof THEN EOF ELSE More,
        LAMBDA c :
          IF c = More THEN [p |-> p, c |-> More]
          ELSE [p |-> [p EXCEPT !.line_end = IF p.inc_line THEN p.line_end + 1
                                             ELSE p.line_end,
                                !.symbol_end = (IF p.inc_line THEN 0 ELSE p.symbol_end) + 1,
                                !.inc_line = (c = "\n"),
                                !.pos = IF c # EOF THEN p.pos + 1 ELSE p.pos],
                c |-> c])

\* Parser.read_symbol: file.read(1) with the lazy line counter.  c is More, and
\* nothing is read, when the next character of the file is not known yet.
read_symbol(p) ==
    Let(IF p.pos < Len(p.input) THEN p.input[p.pos + 1]
        ELSE IF p.eof THEN EOF ELSE More,
        LAMBDA c :
          IF c = More THEN [p |-> p, c |-> More]
          ELSE [p |-> [p EXCEPT !.line_end = IF p.inc_line THEN p.line_end + 1
                                             ELSE p.line_end,
                                !.symbol_end = (IF p.inc_line THEN 0 ELSE p.symbol_end)
                                               + (IF c # EOF THEN 1 ELSE 0),
                                !.inc_line = (c = "\n"),
                                !.pos = IF c # EOF THEN p.pos + 1 ELSE p.pos],
                c |-> c])

\* Parser.read_head_spaces
RECURSIVE read_head_spaces(_, _)
read_head_spaces(p, endl_as_whitespace) ==
    Let(read_symbol(p), LAMBDA r :
      IF r.c = More THEN r
      ELSE Let([r.p EXCEPT !.symbol_start = r.p.symbol_end, !.line_start = r.p.line_end],
               LAMBDA q :
                 IF r.c \notin whitespace_set /\ ~(endl_as_whitespace /\ r.c = "\n")
                 THEN [p |-> q, c |-> r.c]
                 ELSE read_head_spaces(q, endl_as_whitespace)))

\* an exact-symbols mode that reads two characters whatever the number asked for
read_exact_Two(p, n, piece) ==
    Let(read_symbol(p), LAMBDA r :
      IF r.c = More THEN [p |-> p, piece |-> piece, delimiter |-> NoDelim, more |-> TRUE]
      ELSE Let(read_symbol(r.p), LAMBDA t :
             IF t.c = More
             THEN [p |-> p, piece |-> piece, delimiter |-> NoDelim, more |-> TRUE]
             ELSE [p |-> t.p,
                   piece |-> (IF r.c = EOF THEN <<>> ELSE <<r.c>>)
                             \o (IF t.c = EOF THEN <<>> ELSE <<t.c>>),
                   delimiter |-> NoDelim, more |-> FALSE]))

\* Parser.read_piece, exact symbols mode: the for loop
RECURSIVE read_exact(_, _, _)
read_exact(p, n, piece) ==
    IF n = 0 THEN [p |-> p, piece |-> piece, delimiter |-> NoDelim, more |-> FALSE]
    ELSE Let(read_symbol(p), LAMBDA r :
           IF r.c = More
           THEN [p |-> p, piece |-> piece, delimiter |-> NoDelim, more |-> TRUE]
           ELSE read_exact(r.p, n - 1, IF r.c = EOF THEN piece ELSE Append(piece, r.c)))

\* a read_piece that ends the piece at the newline of every comment
RECURSIVE read_piece_loop_CommentEnds(_)
read_piece_loop_CommentEnds(l) ==
    IF l.c = More \/ l.ret THEN l
    ELSE IF ~(l.c \notin l.delimiters \/ l.first_time) THEN l
    ELSE IF l.c = "/" /\ ~l.is_string_literal
    THEN Let(read_symbol(l.p), LAMBDA r :
           read_piece_loop_CommentEnds(
             [l EXCEPT !.first_time = FALSE, !.is_comment = TRUE,
                       !.delimiters = {EOF}, !.p = r.p, !.c = r.c]))
    ELSE IF l.c = "\n" /\ l.is_comment
    THEN [l EXCEPT !.first_time = FALSE, !.ret = TRUE]
    ELSE Let(read_symbol(l.p), LAMBDA r :
           read_piece_loop_CommentEnds(
             [l EXCEPT !.first_time = FALSE,
                       !.piece = IF l.is_comment THEN l.piece ELSE Append(l.piece, l.c),
                       !.p = r.p, !.c = r.c]))

\* Parser.read_piece, the while loop.  l holds the locals of read_piece; l.ret is
\* set by the return inside the loop (the end of a comment).
RECURSIVE read_piece_loop(_)
read_piece_loop(l) ==
    IF l.c = More \/ l.ret THEN l
    ELSE IF ~(l.c \notin l.delimiters \/ l.first_time) THEN l
    ELSE IF l.c = "/" /\ ~l.is_string_literal
    THEN \* comment mode: stop only at EOF, the characters are not added
         Let(read_symbol(l.p), LAMBDA r :
           read_piece_loop([l EXCEPT !.first_time = FALSE, !.is_comment = TRUE,
                                     !.delimiters = {EOF}, !.p = r.p, !.c = r.c]))
    ELSE IF l.c = "\n" /\ l.is_comment
    THEN IF "\n" \in l.old_delimiters /\ (~l.endl_as_whitespace \/ l.piece # <<>>)
         THEN [l EXCEPT !.first_time = FALSE, !.ret = TRUE]
         ELSE Let(IF l.allow_spaces THEN read_head_spaces(l.p, l.endl_as_whitespace)
                  ELSE [p |-> l.p, c |-> l.c],
                  LAMBDA r :
                    read_piece_loop([l EXCEPT !.first_time = FALSE, !.is_comment = FALSE,
                                              !.delimiters = l.old_delimiters,
                                              !.p = r.p, !.c = r.c]))
    ELSE Let(read_symbol(l.p), LAMBDA r :
           read_piece_loop([l EXCEPT !.first_time = FALSE,
                                     !.piece = IF l.is_comment THEN l.piece
                                               ELSE Append(l.piece, l.c),
                                     !.p = r.p, !.c = r.c]))

\* what read_piece gives back: the parser, the piece and the delimiter
Piece(q, piece, c, more) == [p |-> q, piece |-> piece, delimiter |-> c, more |-> more]

\* a read_piece that takes any character after the closing quote for the delimiter
read_piece_end_AnyDelimiter(l) ==
    IF l.c = More THEN Piece(l.p, l.piece, l.c, TRUE)
    ELSE IF l.ret THEN Piece(l.p, l.piece, l.c, FALSE)
    ELSE IF l.is_string_literal /\ l.c # "\""
    THEN Piece(Raise(l.p, exception(l.p, "MProcEOFError", <<>>)), l.piece, l.c, FALSE)
    ELSE IF l.is_string_literal
    THEN Let(read_symbol(l.p), LAMBDA r :
           IF r.c = More THEN Piece(r.p, Append(l.piece, l.c), r.c, TRUE)
           ELSE Piece(r.p, Append(l.piece, l.c), r.c, FALSE))
    ELSE Piece(l.p, l.piece, l.c, FALSE)

\* Parser.read_piece, after the while loop
read_piece_end(l) ==
    IF l.c = More THEN Piece(l.p, l.piece, l.c, TRUE)
    ELSE IF l.ret THEN Piece(l.p, l.piece, l.c, FALSE)
    ELSE IF l.is_string_literal /\ l.c # "\""
    THEN Piece(Raise(l.p, exception(l.p, "MProcEOFError", <<>>)), l.piece, l.c, FALSE)
    ELSE IF l.is_string_literal
    THEN Let(read_symbol(l.p), LAMBDA r :
           IF r.c = More THEN Piece(r.p, Append(l.piece, l.c), r.c, TRUE)
           ELSE IF r.c \notin l.old_delimiters
           THEN Piece(Raise(r.p, exception(r.p, "MProcInvalidStringLiteral",
                                           Append(Append(l.piece, l.c), r.c))),
                      Append(Append(l.piece, l.c), r.c), r.c, FALSE)
           ELSE Piece(r.p, Append(l.piece, l.c), r.c, FALSE))
    ELSE Piece(l.p, l.piece, l.c, FALSE)

\* Parser.read_piece: [p, piece, delimiter, more]; an error is left in p.exc
read_piece(p0, delimiters, allow_spaces, endl_as_whitespace, exact_symbols) ==
    Let([p0 EXCEPT !.symbol_start = IF ~p0.inc_line THEN p0.symbol_end + 1 ELSE 1,
                   !.line_start = p0.line_end + (IF p0.inc_line THEN 1 ELSE 0)],
        LAMBDA p :
          IF exact_symbols # 0 THEN read_exact(p, exact_symbols, <<>>)
          ELSE Let(IF allow_spaces THEN read_head_spaces(p, endl_as_whitespace)
                   ELSE read_symbol(p),
                   LAMBDA first :
                     read_piece_end(read_piece_loop(
                       [p |-> first.p, c |-> first.c, piece |-> <<>>,
                        delimiters |-> IF first.c = "\"" THEN {"\n", "\"", EOF}
                                       ELSE delimiters,
                        old_delimiters |-> delimiters,
                        allow_spaces |-> allow_spaces,
                        endl_as_whitespace |-> endl_as_whitespace,
                        is_string_literal |-> first.c = "\"",
                        first_time |-> first.c = "\"",
                        is_comment |-> FALSE, ret |-> FALSE]))))

----------------------------------------------------------------------------
(* Token classifier (Parser.parse_token) *)

\* the value of a digit character for int(piece, base)
DigitVal ==
    ("0" :> 0) @@ ("1" :> 1) @@ ("2" :> 2) @@ ("3" :> 3) @@ ("4" :> 4) @@
    ("5" :> 5) @@ ("6" :> 6) @@ ("7" :> 7) @@ ("8" :> 8) @@ ("9" :> 9) @@
    ("a" :> 10) @@ ("b" :> 11) @@ ("c" :> 12) @@ ("d" :> 13) @@ ("e" :> 14) @@
    ("f" :> 15) @@ ("A" :> 10) @@ ("B" :> 11) @@ ("C" :> 12) @@ ("D" :> 13) @@
    ("E" :> 14) @@ ("F" :> 15)

IsDigit(c, base) == c \in DOMAIN DigitVal /\ DigitVal[c] < base

\* digits of the base, single underscores allowed between two digits
IsDigitPart(s, base) ==
    /\ Len(s) > 0
    /\ \A i \in 1..Len(s) :
          \/ IsDigit(s[i], base)
          \/ /\ s[i] = "_"
             /\ 1 < i /\ i < Len(s)
             /\ IsDigit(s[i - 1], base) /\ IsDigit(s[i + 1], base)

RECURSIVE DigitsValue(_, _, _)
DigitsValue(s, base, acc) ==
    IF s = <<>> THEN acc
    ELSE DigitsValue(Tail(s), base,
                     IF Head(s) = "_" THEN acc ELSE acc * base + DigitVal[Head(s)])

StartsWith(s, prefix) == Len(s) >= Len(prefix) /\ SubSeq(s, 1, Len(prefix)) = prefix
EndsWith(s, suffix) ==
    Len(s) >= Len(suffix) /\ SubSeq(s, Len(s) - Len(suffix) + 1, Len(s)) = suffix
Drop(s, n) == SubSeq(s, n + 1, Len(s))

HasSign(s) == s # <<>> /\ s[1] \in {"+", "-"}
Unsigned(s) == IF HasSign(s) THEN Tail(s) ELSE s
SignOf(s) == IF s # <<>> /\ s[1] = "-" THEN -1 ELSE 1

\* int(piece, base) of Python for base 10, 16 and 2: [ok, value]; ok is FALSE for
\* ValueError.  After the sign, the prefix of the base is optional and may be
\* followed by one underscore.
int(piece, base) ==
    Let(Unsigned(piece), LAMBDA u :
    Let(\/ base = 16 /\ (StartsWith(u, <<"0", "x">>) \/ StartsWith(u, <<"0", "X">>))
        \/ base = 2 /\ (StartsWith(u, <<"0", "b">>) \/ StartsWith(u, <<"0", "B">>)),
        LAMBDA prefixed :
    Let(IF prefixed THEN Drop(u, 2) ELSE u, LAMBDA d0 :
    Let(IF prefixed /\ d0 # <<>> /\ d0[1] = "_" THEN Tail(d0) ELSE d0, LAMBDA d :
      IF IsDigitPart(d, base)
      THEN [ok |-> TRUE, value |-> SignOf(piece) * DigitsValue(d, base, 0)]
      ELSE [ok |-> FALSE, value |-> 0]))))

\* The value of a NumericLiteral: a Python int, or a Python float as
\* mant * 10^exp with mant not a multiple of 10 (0.0 is 0 * 10^0), inf or nan
IntValue(v) == [kind |-> "int", mant |-> v, exp |-> 0]

RECURSIVE FloatValue(_, _)
FloatValue(mant, exp) ==
    IF mant = 0 THEN [kind |-> "float", mant |-> 0, exp |-> 0]
    ELSE IF mant % 10 = 0 THEN FloatValue(mant \div 10, exp + 1)
    ELSE [kind |-> "float", mant |-> mant, exp |-> exp]

IndexOf(s, chars) ==
    IF \E i \in 1..Len(s) : s[i] \in chars
    THEN CHOOSE i \in 1..Len(s) : s[i] \in chars /\ \A j \in 1..(i - 1) : s[j] \notin chars
    ELSE 0

CountOf(s, c) == Cardinality({i \in 1..Len(s) : s[i] = c})

\* float(s) of Python: [ok, value].  sign, then inf, infinity, nan or
\* digits [. [digits]] | . digits, then an optional exponent e [sign] digits.
float(s) ==
    Let(Unsigned(s), LAMBDA u :
    Let(IndexOf(u, {"e", "E"}), LAMBDA e :
    Let(IF e = 0 THEN u ELSE SubSeq(u, 1, e - 1), LAMBDA body :
    Let(IF e = 0 THEN <<>> ELSE Drop(u, e), LAMBDA expo :
    Let(IndexOf(body, {"."}), LAMBDA dot :
    Let(IF dot = 0 THEN body ELSE SubSeq(body, 1, dot - 1), LAMBDA ipart :
    Let(IF dot = 0 THEN <<>> ELSE Drop(body, dot), LAMBDA fpart :
      IF u \in {<<"i", "n", "f">>, <<"i", "n", "f", "i", "n", "i", "t", "y">>}
      THEN [ok |-> TRUE, value |-> [kind |-> "inf", mant |-> SignOf(s), exp |-> 0]]
      ELSE IF u = <<"n", "a", "n">>
      THEN [ok |-> TRUE, value |-> [kind |-> "nan", mant |-> 0, exp |-> 0]]
      ELSE IF /\ ipart # <<>> \/ fpart # <<>>
              /\ ipart = <<>> \/ IsDigitPart(ipart, 10)
              /\ fpart = <<>> \/ IsDigitPart(fpart, 10)
              /\ e = 0 \/ IsDigitPart(Unsigned(expo), 10)
      THEN [ok |-> TRUE,
            value |-> FloatValue(
                        SignOf(s) * DigitsValue(ipart \o fpart, 10, 0),
                        (IF e = 0 THEN 0
                         ELSE SignOf(expo) * DigitsValue(Unsigned(expo), 10, 0))
                        - (Len(fpart) - CountOf(fpart, "_")))]
      ELSE [ok |-> FALSE, value |-> 0])))))))

\* a parse_token that knows no binary literals
parse_token_NoBinary(p, piece) ==
    IF piece = <<>> THEN exception(p, "MProcTokenExpectedError", <<>>)
    ELSE IF StartsWith(piece, <<"\"">>) /\ EndsWith(piece, <<"\"">>)
    THEN StringLiteral(p.line_start, p.symbol_start,
                       IF Len(piece) >= 2 THEN SubSeq(piece, 2, Len(piece) - 1) ELSE <<>>)
    ELSE Let(int(piece, IF StartsWith(piece, <<"0", "x">>) THEN 16 ELSE 10),
             LAMBDA i :
               IF i.ok THEN NumericLiteral(p.line_start, p.symbol_start, IntValue(i.value))
               ELSE Let(float(IF EndsWith(piece, <<".">>) THEN Front(piece) ELSE piece),
                        LAMBDA f :
                          IF f.ok
                          THEN NumericLiteral(p.line_start, p.symbol_start, f.value)
                          ELSE Token(p.line_start, p.symbol_start, piece)))

\* a parse_token that takes every piece that begins with a quote for a string literal
parse_token_OpeningQuote(p, piece) ==
    IF piece = <<>> THEN exception(p, "MProcTokenExpectedError", <<>>)
    ELSE IF StartsWith(piece, <<"\"">>)
    THEN StringLiteral(p.line_start, p.symbol_start,
                       IF Len(piece) >= 2 THEN SubSeq(piece, 2, Len(piece) - 1) ELSE <<>>)
    ELSE Let(int(piece, IF StartsWith(piece, <<"0", "x">>) THEN 16
                        ELSE IF StartsWith(piece, <<"0", "b">>) THEN 2 ELSE 10),
             LAMBDA i :
               IF i.ok THEN NumericLiteral(p.line_start, p.symbol_start, IntValue(i.value))
               ELSE Let(float(IF EndsWith(piece, <<".">>) THEN Front(piece) ELSE piece),
                        LAMBDA f :
                          IF f.ok
                          THEN NumericLiteral(p.line_start, p.symbol_start, f.value)
                          ELSE Token(p.line_start, p.symbol_start, piece)))

\* a parse_token that locates the node at the last character read
parse_token_AtEnd(p, piece) ==
    IF piece = <<>> THEN exception(p, "MProcTokenExpectedError", <<>>)
    ELSE IF StartsWith(piece, <<"\"">>) /\ EndsWith(piece, <<"\"">>)
    THEN StringLiteral(p.line_end, p.symbol_end,
                       IF Len(piece) >= 2 THEN SubSeq(piece, 2, Len(piece) - 1) ELSE <<>>)
    ELSE Let(int(piece, IF StartsWith(piece, <<"0", "x">>) THEN 16
                        ELSE IF StartsWith(piece, <<"0", "b">>) THEN 2 ELSE 10),
             LAMBDA i :
               IF i.ok THEN NumericLiteral(p.line_end, p.symbol_end, IntValue(i.value))
               ELSE Let(float(IF EndsWith(piece, <<".">>) THEN Front(piece) ELSE piece),
                        LAMBDA f :
                          IF f.ok
                          THEN NumericLiteral(p.line_end, p.symbol_end, f.value)
                          ELSE Token(p.line_end, p.symbol_end, piece)))

\* Parser.parse_token: a node, or the exception it raises
parse_token(p, piece) ==
    IF piece = <<>> THEN exception(p, "MProcTokenExpectedError", <<>>)
    ELSE IF StartsWith(piece, <<"\"">>) /\ EndsWith(piece, <<"\"">>)
    THEN StringLiteral(p.line_start, p.symbol_start,
                       IF Len(piece) >= 2 THEN SubSeq(piece, 2, Len(piece) - 1) ELSE <<>>)
    ELSE Let(int(piece, IF StartsWith(piece, <<"0", "x">>) THEN 16
                        ELSE IF StartsWith(piece, <<"0", "b">>) THEN 2 ELSE 10),
             LAMBDA i :
               IF i.ok THEN NumericLiteral(p.line_start, p.symbol_start, IntValue(i.value))
               ELSE Let(float(IF EndsWith(piece, <<".">>) THEN Front(piece) ELSE piece),
                        LAMBDA f :
                          IF f.ok
                          THEN NumericLiteral(p.line_start, p.symbol_start, f.value)
                          ELSE Token(p.line_start, p.symbol_start, piece)))

IsRaise(x) == x.type = "Raise"

----------------------------------------------------------------------------
(* Contexts (mproc/parser/contexts.py): the frames of Parser.stack *)

RootContext == [kind |-> "RootContext"]
SkipEmptyLinesContext == [kind |-> "SkipEmptyLinesContext"]
NewStatementContext == [kind |-> "NewStatementContext"]
SkipSpacesContext(token, endl_as_whitespace) ==
    [kind |-> "SkipSpacesContext", token |-> token,
     endl_as_whitespace |-> endl_as_whitespace]
RightHandSideContext(lhs) == [kind |-> "RightHandSideContext", lhs |-> lhs]
NamedArgumentRightHandSideContext(lhs) ==
    [kind |-> "NamedArgumentRightHandSideContext", lhs |-> lhs]
ExpectedFlowOperatorContext == [kind |-> "ExpectedFlowOperatorContext"]
SelfSufficientFlowOperatorContext(content) ==
    [kind |-> "SelfSufficientFlowOperatorContext", content |-> content]
ExpressionAllowedFlowOperatorContext(content, required) ==
    [kind |-> "ExpressionAllowedFlowOperatorContext", content |-> content,
     required |-> required]
SimpleBlockFlowOperatorContext(content) ==
    [kind |-> "SimpleBlockFlowOperatorContext", content |-> content]
MLogBlockFlowOperatorContext(content) ==
    [kind |-> "MLogBlockFlowOperatorContext", content |-> content]
BlockEndFlowOperatorContext(content_type, name) ==
    [kind |-> "BlockEndFlowOperatorContext", content_type |-> content_type,
     name |-> name]
BlockWithExpressionFlowOperatorContext(content) ==
    [kind |-> "BlockWithExpressionFlowOperatorContext", content |-> content,
     body2 |-> FALSE, reading_expression |-> TRUE]
BodySwitchFlowOperatorContext(content_type, name) ==
    [kind |-> "BodySwitchFlowOperatorContext", content_type |-> content_type,
     name |-> name]
FunctionFlowOperatorContext(content) ==
    [kind |-> "FunctionFlowOperatorContext", content |-> content,
     reading_definition |-> TRUE]
RawFunctionFlowOperatorContext(content) ==
    [kind |-> "RawFunctionFlowOperatorContext", content |-> content,
     reading_definition |-> TRUE]
SearchForReturnContext(token, endl_as_whitespace) ==
    [kind |-> "SearchForReturnContext", token |-> token,
     endl_as_whitespace |-> endl_as_whitespace]
MustBeArrowContext(content) == [kind |-> "MustBeArrowContext", content |-> content]
FunctionDefinitionContext(content) ==
    [kind |-> "FunctionDefinitionContext", content |-> content]
MLogContext == [kind |-> "MLogContext"]
MLogEndContext == [kind |-> "MLogEndContext"]
BlockEndOnlyContext == [kind |-> "BlockEndOnlyContext"]
\* ListContext.__init__: the list starts with its first element
ListContext(first) ==
    [kind |-> "ListContext", content |-> List(first.line, first.symbol, <<first>>)]
ArgumentListContext(first) ==
    [kind |-> "ArgumentListContext",
     content |-> List(first.line, first.symbol, <<first>>)]
CallContext(caller) == [kind |-> "CallContext", caller |-> caller]

\* the lexer parameters each context class supplies
delimiters(ctx) ==
    IF ctx.kind \in {"SelfSufficientFlowOperatorContext", "SimpleBlockFlowOperatorContext",
                     "MLogBlockFlowOperatorContext", "BlockEndFlowOperatorContext",
                     "BodySwitchFlowOperatorContext"}
    THEN {"\n", EOF}
    ELSE IF ctx.kind = "SearchForReturnContext" THEN ContextDelimiters \cup {"-"}
    ELSE IF ctx.kind = "MLogContext" THEN {"#", EOF}
    ELSE ContextDelimiters

allow_spaces(ctx) ==
    ctx.kind \notin {"ExpectedFlowOperatorContext", "BlockEndOnlyContext", "MLogContext"}

endl_as_whitespace(ctx) ==
    IF ctx.kind \in {"SkipSpacesContext", "SearchForReturnContext"}
    THEN ctx.endl_as_whitespace
    ELSE ctx.kind \in {"RightHandSideContext", "NamedArgumentRightHandSideContext",
                       "FunctionDefinitionContext", "ListContext",
                       "ArgumentListContext", "CallContext"}

exact_symbols(ctx) == IF ctx.kind = "MustBeArrowContext" THEN 1 ELSE 0

\* hasattr(ctx, "content")
HasContent(ctx) == "content" \in DOMAIN ctx
\* hasattr(ctx, "body2")
HasBody2(ctx) == "body2" \in DOMAIN ctx
\* isinstance(ctx, NewStatementContext): MLogEndContext is a subclass
IsNewStatementContext(ctx) == ctx.kind \in {"NewStatementContext", "MLogEndContext"}

\* the keyword tables of ExpectedFlowOperatorContext
self_sufficient_operators ==
    (<<"b", "r", "e", "a", "k">> :> "Break") @@
    (<<"c", "o", "n", "t", "i", "n", "u", "e">> :> "Continue") @@
    (<<"e", "n", "d">> :> "End") @@ (<<"s", "t", "o", "p">> :> "Stop")
\* a keyword table that requires an expression after return too
expression_required_operators_WithReturn ==
    (<<"i", "m", "p", "o", "r", "t">> :> "Import") @@ (<<"w", "a", "i", "t">> :> "Wait") @@
    (<<"u", "s", "i", "n", "g">> :> "Using") @@ (<<"v", "a", "r">> :> "Var") @@
    (<<"r", "e", "t", "u", "r", "n">> :> "Return")

expression_required_operators ==
    (<<"i", "m", "p", "o", "r", "t">> :> "Import") @@ (<<"w", "a", "i", "t">> :> "Wait") @@
    (<<"u", "s", "i", "n", "g">> :> "Using") @@ (<<"v", "a", "r">> :> "Var")
expression_allowed_operators == (<<"r", "e", "t", "u", "r", "n">> :> "Return")
simple_block_operators ==
    (<<"d", "e", "f">> :> "Def") @@ (<<"i", "n", "i", "t">> :> "Init") @@
    (<<"p", "r", "o", "g">> :> "Prog") @@ (<<"l", "i", "n", "k">> :> "Link")
block_with_expression_operators ==
    (<<"i", "f">> :> "If") @@ (<<"l", "o", "o", "p">> :> "Loop")
body_switch_operators ==
    (<<"e", "l", "s", "e">> :> "If") @@ (<<"a", "f", "t", "e", "r">> :> "Loop")
function_operators ==
    (<<"f", "u", "n", "c">> :> "Func") @@ (<<"e", "n", "u", "m">> :> "Enum")
raw_func_operators == (<<"r", "a", "w", "f", "u", "n", "c">> :> "RawFunc")
mlog_operators == (<<"m", "l", "o", "g">> :> "MLog")
block_end_operators ==
    (<<"e", "n", "d", "p", "r", "o", "g">> :> "Prog") @@
    (<<"e", "n", "d", "f", "u", "n", "c">> :> "Func") @@
    (<<"e", "n", "d", "r", "a", "w", "f", "u", "n", "c">> :> "RawFunc") @@
    (<<"e", "n", "d", "i", "f">> :> "If") @@
    (<<"e", "n", "d", "l", "o", "o", "p">> :> "Loop") @@
    (<<"e", "n", "d", "d", "e", "f">> :> "Def") @@
    (<<"e", "n", "d", "i", "n", "i", "t">> :> "Init") @@
    (<<"e", "n", "d", "m", "l", "o", "g">> :> "MLog") @@
    (<<"e", "n", "d", "e", "n", "u", "m">> :> "Enum") @@
    (<<"e", "n", "d", "l", "i", "n", "k">> :> "Link")

----------------------------------------------------------------------------
(* Stack primitives and the helper actions of Context *)

\* Every context is an object of its own.  p.ids holds, frame by frame, the number
\* of the object on the stack, p.born counts the contexts constructed so far,
\* p.active is the object whose handle_piece or handle_child_content is running,
\* and p.delivered lists the calls parent.handle_child_content(node, delimiter):
\* who made the call, who received it, and the objects on the stack at that moment.
Top(p) == Last(p.stack)
Push(p, ctx) == [p EXCEPT !.stack = Append(p.stack, ctx),
                          !.ids = Append(p.ids, p.born + 1), !.born = p.born + 1]
\* list.pop() and stack[-1] raise IndexError on an empty stack
Pop(p) == IF p.stack = <<>> THEN Raise(p, PythonError("IndexError"))
          ELSE [p EXCEPT !.stack = Front(p.stack), !.ids = Front(p.ids)]
\* a method of the context on top of the stack starts to run
Enter(p) == IF p.ids = <<>> THEN p ELSE [p EXCEPT !.active = Last(p.ids)]
\* the running context calls handle_child_content of the context on top of the stack
Deliver(p) ==
    [p EXCEPT !.delivered = Append(@, [sender |-> p.active, receiver |-> Last(p.ids),
                                       ids |-> p.ids])]
SetTop(p, ctx) == [p EXCEPT !.stack[Len(p.stack)] = ctx]

\* the text a delimiter is formatted to in a diagnostic
DelimiterText(delimiter) == IF delimiter = EOF THEN <<>> ELSE <<delimiter>>

wrong_delimiter(p, delimiter) ==
    Raise(p, exception_end(p, "MProcParseError", DelimiterText(delimiter)))

\* Context.create_assignment
Context_create_assignment(p, token) ==
    IF token = None THEN Raise(p, exception(p, "MProcTokenExpectedError", <<>>))
    ELSE Push(p, RightHandSideContext(token))

\* Context.create_list
Context_create_list(p, token) ==
    IF token = None THEN Raise(p, exception(p, "MProcTokenExpectedError", <<>>))
    ELSE Push(p, ListContext(token))

\* Context.create_call (no class overrides it)
create_call(p, token) ==
    IF token = None THEN Raise(p, exception(p, "MProcTokenExpectedError", <<>>))
    ELSE Push(p, CallContext(token))

create_flow_operator(p) == Push(p, ExpectedFlowOperatorContext)

\* Context.skip_spaces
Context_skip_spaces(p, token, endl) == Push(p, SkipSpacesContext(token, endl))

\* ListContext.append on the list of the top frame
ListContext_append(p, content) ==
    IF content = None THEN p
    ELSE SetTop(p, [Top(p) EXCEPT !.content.expressions = Append(@, content)])

\* ArgumentListContext.append: a List is spliced in
ArgumentListContext_append(p, content) ==
    IF content # None /\ content.type = "List"
    THEN SetTop(p, [Top(p) EXCEPT !.content.expressions = @ \o content.expressions])
    ELSE ListContext_append(p, content)

\* the append method of the top frame
append(p, content) ==
    LET self == Top(p)
    IN  CASE self.kind = "ListContext" -> ListContext_append(p, content)
          [] self.kind = "ArgumentListContext" -> ArgumentListContext_append(p, content)
          [] self.kind \in {"SimpleBlockFlowOperatorContext", "FunctionFlowOperatorContext"}
               -> SetTop(p, [self EXCEPT !.content.body = Append(@, content)])
          [] self.kind \in {"MLogBlockFlowOperatorContext", "RawFunctionFlowOperatorContext"}
               -> SetTop(p, [self EXCEPT !.content.body = @ \o content])
          [] self.kind = "BlockWithExpressionFlowOperatorContext"
               -> IF content = None THEN p
                  ELSE IF self.body2
                  THEN SetTop(p, [self EXCEPT !.content.body2 = Append(@, content)])
                  ELSE SetTop(p, [self EXCEPT !.content.body = Append(@, content)])
          [] OTHER -> Raise(p, PythonError("AttributeError"))

\* the read_statement method of the top frame
read_statement(p) ==
    IF Top(p).kind \in {"MLogBlockFlowOperatorContext", "RawFunctionFlowOperatorContext"}
    THEN Push(p, MLogContext)
    ELSE Push(p, SkipEmptyLinesContext)

\* ListContext.skip_spaces
ListContext_skip_spaces(p, token, endl) ==
    Context_skip_spaces(append(p, token), None, endl)

skip_spaces(p, token, endl) ==
    IF Top(p).kind \in {"ListContext", "ArgumentListContext"}
    THEN ListContext_skip_spaces(p, token, endl)
    ELSE Context_skip_spaces(p, token, endl)

\* a ListContext.create_assignment that keeps only the last element as the lhs
ListContext_create_assignment_LastOnly(p, token) ==
    Context_create_assignment(Pop(p), token)

\* ListContext.create_assignment: the list becomes the lhs
ListContext_create_assignment(p, token) ==
    Let(append(p, token), LAMBDA q : Context_create_assignment(Pop(q), Top(q).content))

\* ArgumentListContext.create_assignment
ArgumentListContext_create_assignment(p, token) ==
    Push(p, NamedArgumentRightHandSideContext(token))

\* CallContext.create_assignment
CallContext_create_assignment(p, token) ==
    IF token = None THEN Raise(p, exception(p, "MProcTokenExpectedError", <<>>))
    ELSE Push(p, NamedArgumentRightHandSideContext(token))

create_assignment(p, token) ==
    CASE Top(p).kind = "ListContext" -> ListContext_create_assignment(p, token)
      [] Top(p).kind = "ArgumentListContext" -> ArgumentListContext_create_assignment(p, token)
      [] Top(p).kind = "CallContext" -> CallContext_create_assignment(p, token)
      [] OTHER -> Context_create_assignment(p, token)

\* NamedArgumentRightHandSideContext.create_list
NamedArgumentRightHandSideContext_create_list(p, token) ==
    LET lhs == Top(p).lhs
    IN  IF lhs = None THEN Raise(p, PythonError("AttributeError"))
        ELSE Push(Pop(p), ArgumentListContext(Assignment(lhs.line, lhs.symbol, lhs, token)))

\* CallContext.create_list
CallContext_create_list(p, token) ==
    IF token = None THEN Raise(p, exception(p, "MProcTokenExpectedError", <<>>))
    ELSE Push(p, ArgumentListContext(token))

create_list(p, token) ==
    CASE Top(p).kind = "NamedArgumentRightHandSideContext"
           -> NamedArgumentRightHandSideContext_create_list(p, token)
      [] Top(p).kind = "CallContext" -> CallContext_create_list(p, token)
      [] OTHER -> Context_create_list(p, token)

\* parse_token(piece) if piece else None
parse_token_or_None(p, piece) == IF piece # <<>> THEN parse_token(p, piece) ELSE None

----------------------------------------------------------------------------
(* The hooks of the contexts.  self is the top frame when a hook is entered. *)

\* A hook is called on whatever context is on top of the stack at the time of the
\* call (stack[-1].hook(...)); invoke resolves the method by the class of that frame.
RECURSIVE invoke(_, _, _, _)
handle_piece(p, piece, delimiter) == invoke("handle_piece", p, piece, delimiter)
handle_child_content(p, content, delimiter) ==
    invoke("handle_child_content", p, content, delimiter)
save_statement(p, token, delimiter) == invoke("save_statement", p, token, delimiter)

TokenExpected(p) == Raise(p, exception(p, "MProcTokenExpectedError", <<>>))

\* Context.save_statement: pop self and hand the node to the parent
Context_save_statement(p, token, delimiter) ==
    LET q == Pop(p)
    IN  IF Raised(q) THEN q
        ELSE IF q.stack = <<>> THEN Raise(q, PythonError("IndexError"))
        ELSE handle_child_content(Deliver(q), token, delimiter)

\* a RootContext that stays on the stack at the end of the file
RootContext_handle_piece_Stay(p, piece, delimiter) ==
    IF delimiter = EOF /\ piece = <<>> THEN p
    ELSE handle_piece(Push(p, SkipEmptyLinesContext), piece, delimiter)

\* RootContext.handle_piece
RootContext_handle_piece(p, piece, delimiter) ==
    IF delimiter = EOF /\ piece = <<>> THEN Pop(p)
    ELSE handle_piece(Push(p, SkipEmptyLinesContext), piece, delimiter)

\* a RootContext that leaves the stack after every statement
RootContext_handle_child_content_AlwaysPop(p, content, delimiter) ==
    LET q == [p EXCEPT !.root.body = Append(@, content)]
    IN  Pop(q)

\* a RootContext that keeps the last statement only
RootContext_handle_child_content_KeepLast(p, content, delimiter) ==
    LET q == [p EXCEPT !.root.body = <<content>>]
    IN  IF delimiter # EOF THEN Push(q, SkipEmptyLinesContext) ELSE Pop(q)

\* RootContext.handle_child_content
RootContext_handle_child_content(p, content, delimiter) ==
    LET q == [p EXCEPT !.root.body = Append(@, content)]
    IN  IF delimiter # EOF THEN Push(q, SkipEmptyLinesContext) ELSE Pop(q)

\* a SkipEmptyLinesContext that takes a blank line for a statement
SkipEmptyLinesContext_handle_piece_NoSkip(p, piece, delimiter) ==
    IF piece # <<>> \/ delimiter # EOF
    THEN handle_piece(Push(Pop(p), NewStatementContext), piece, delimiter)
    ELSE Pop(p)

\* SkipEmptyLinesContext.handle_piece
SkipEmptyLinesContext_handle_piece(p, piece, delimiter) ==
    IF piece # <<>> \/ delimiter \notin {EOF, "\n"}
    THEN handle_piece(Push(Pop(p), NewStatementContext), piece, delimiter)
    ELSE IF delimiter = EOF THEN Pop(p)
    ELSE p

\* NewStatementContext.handle_piece
NewStatementContext_handle_piece(p, piece, delimiter) ==
    IF delimiter = "#"
    THEN IF piece # <<>> THEN Raise(p, exception(p, "MProcStructureError", <<>>))
         ELSE create_flow_operator(p)
    ELSE Let(parse_token(p, piece), LAMBDA token :
             IF IsRaise(token) THEN Raise(p, token)
             ELSE IF delimiter \in {EOF, "\n"}
             THEN save_statement(p, token, IF delimiter = EOF THEN EOF ELSE NoDelim)
             ELSE IF delimiter \in whitespace_set THEN skip_spaces(p, token, FALSE)
             ELSE IF delimiter = "=" THEN create_assignment(p, token)
             ELSE IF delimiter = ")" THEN wrong_delimiter(p, delimiter)
             ELSE IF delimiter = "," THEN create_list(p, token)
             ELSE IF delimiter = "(" THEN create_call(p, token)
             ELSE p)

\* NewStatementContext.handle_child_content
NewStatementContext_handle_child_content(p, content, delimiter) ==
    IF delimiter = NoDelim THEN skip_spaces(p, content, FALSE)
    ELSE IF delimiter \in {EOF, "\n"}
    THEN save_statement(p, content, IF delimiter = EOF THEN EOF ELSE NoDelim)
    ELSE IF delimiter = "=" THEN create_assignment(p, content)
    ELSE IF delimiter = "," THEN create_list(p, content)
    ELSE IF delimiter = ")" THEN wrong_delimiter(p, delimiter)
    ELSE IF delimiter = "(" THEN create_call(p, content)
    ELSE p

\* a SkipSpacesContext that stays on the stack when it hands its token on
SkipSpacesContext_handle_piece_Stay(p, piece, delimiter) ==
    LET self == Top(p)
        token == parse_token_or_None(p, piece)
    IN  IF piece # <<>> /\ self.token # None
        THEN Raise(p, exception(p, "MProcParseError", piece))
        ELSE IF delimiter = "#" THEN Raise(p, exception_end(p, "MProcStructureError", <<>>))
        ELSE IF IsRaise(token) THEN Raise(p, token)
        ELSE handle_child_content(Deliver(p),
                                  IF self.token # None THEN self.token ELSE token,
                                  delimiter)

\* SkipSpacesContext.handle_piece
SkipSpacesContext_handle_piece(p, piece, delimiter) ==
    LET self == Top(p)
        q == Pop(p)
        token == parse_token_or_None(q, piece)
    IN  IF piece # <<>> /\ self.token # None
        THEN Raise(p, exception(p, "MProcParseError", piece))
        ELSE IF delimiter = "#" THEN Raise(p, exception_end(p, "MProcStructureError", <<>>))
        ELSE IF q.stack = <<>> THEN Raise(q, PythonError("IndexError"))
        ELSE IF IsRaise(token) THEN Raise(q, token)
        ELSE handle_child_content(Deliver(q),
                                  IF self.token # None THEN self.token ELSE token,
                                  delimiter)

\* SearchForReturnContext.handle_piece
SearchForReturnContext_handle_piece(p, piece, delimiter) ==
    IF delimiter = "-"
    THEN IF piece # <<>> THEN Raise(p, exception(p, "MProcParseError", piece))
         ELSE Push(Pop(p), MustBeArrowContext(Top(p).token))
    ELSE SkipSpacesContext_handle_piece(p, piece, delimiter)

\* RightHandSideContext.save_statement
RightHandSideContext_save_statement(p, token, delimiter) ==
    LET lhs == Top(p).lhs
    IN  IF token = None THEN TokenExpected(p)
        ELSE IF lhs = None THEN Raise(p, PythonError("AttributeError"))
        ELSE Context_save_statement(p, Assignment(lhs.line, lhs.symbol, lhs, token),
                                    delimiter)

\* RightHandSideContext.handle_piece
RightHandSideContext_handle_piece(p, piece, delimiter) ==
    Let(parse_token_or_None(p, piece), LAMBDA token :
        IF IsRaise(token) THEN Raise(p, token)
        ELSE IF delimiter \in {EOF, "\n", ")"} THEN save_statement(p, token, delimiter)
        ELSE IF delimiter \in whitespace_set THEN skip_spaces(p, token, FALSE)
        ELSE IF delimiter = "#" THEN Raise(p, exception_end(p, "MProcStructureError", <<>>))
        ELSE IF delimiter = "=" THEN wrong_delimiter(p, delimiter)
        ELSE IF delimiter = ","
        THEN IF token = None THEN TokenExpected(p) ELSE create_list(p, token)
        ELSE IF delimiter = "(" THEN create_call(p, token)
        ELSE p)

\* RightHandSideContext.handle_child_content
RightHandSideContext_handle_child_content(p, content, delimiter) ==
    IF delimiter = NoDelim THEN skip_spaces(p, content, FALSE)
    ELSE IF delimiter \in {EOF, "\n"}
    THEN IF delimiter = "\n" /\ content = None THEN skip_spaces(p, None, TRUE)
         ELSE save_statement(p, content, delimiter)
    ELSE IF delimiter \in {"=", ")"} THEN wrong_delimiter(p, delimiter)
    ELSE IF delimiter = ","
    THEN IF content = None THEN TokenExpected(p) ELSE create_list(p, content)
    ELSE IF delimiter = "(" THEN create_call(p, content)
    ELSE p

\* SelfSufficientFlowOperatorContext.handle_piece
SelfSufficientFlowOperatorContext_handle_piece(p, piece, delimiter) ==
    IF piece # <<>> THEN Raise(p, exception(p, "MProcParseError", piece))
    ELSE save_statement(p, Top(p).content, delimiter)

\* ExpressionAllowedFlowOperatorContext.save_statement
ExpressionAllowedFlowOperatorContext_save_statement(p, token, delimiter) ==
    Context_save_statement(p, [Top(p).content EXCEPT !.expression = token], delimiter)

\* an ExpressionAllowedFlowOperatorContext that never requires its expression
ExpressionAllowedFlowOperatorContext_handle_piece_Optional(p, piece, delimiter) ==
    Let(parse_token_or_None(p, piece), LAMBDA token :
        IF IsRaise(token) THEN Raise(p, token)
        ELSE IF delimiter \in {EOF, "\n"} THEN save_statement(p, token, delimiter)
        ELSE IF delimiter \in whitespace_set THEN skip_spaces(p, token, FALSE)
        ELSE IF delimiter \in {")", "#"}
        THEN Raise(p, exception_end(p, "MProcParseError", DelimiterText(delimiter)))
        ELSE IF delimiter = "=" THEN create_assignment(p, token)
        ELSE IF delimiter = "," THEN create_list(p, token)
        ELSE IF delimiter = "(" THEN create_call(p, token)
        ELSE p)

\* ExpressionAllowedFlowOperatorContext.handle_piece
ExpressionAllowedFlowOperatorContext_handle_piece(p, piece, delimiter) ==
    Let(parse_token_or_None(p, piece), LAMBDA token :
        IF IsRaise(token) THEN Raise(p, token)
        ELSE IF token = None /\ Top(p).required THEN TokenExpected(p)
        ELSE IF delimiter \in {EOF, "\n"} THEN save_statement(p, token, delimiter)
        ELSE IF delimiter \in whitespace_set THEN skip_spaces(p, token, FALSE)
        ELSE IF delimiter \in {")", "#"}
        THEN Raise(p, exception_end(p, "MProcParseError", DelimiterText(delimiter)))
        ELSE IF delimiter = "=" THEN create_assignment(p, token)
        ELSE IF delimiter = "," THEN create_list(p, token)
        ELSE IF delimiter = "(" THEN create_call(p, token)
        ELSE p)

\* ExpressionAllowedFlowOperatorContext.handle_child_content
ExpressionAllowedFlowOperatorContext_handle_child_content(p, content, delimiter) ==
    IF delimiter = NoDelim THEN skip_spaces(p, content, FALSE)
    ELSE IF delimiter \in {EOF, "\n"} THEN save_statement(p, content, delimiter)
    ELSE IF delimiter = ")"
    THEN Raise(p, exception_end(p, "MProcParseError", DelimiterText(delimiter)))
    ELSE IF delimiter = "=" THEN create_assignment(p, content)
    ELSE IF delimiter = "," THEN create_list(p, content)
    ELSE IF delimiter = "(" THEN create_call(p, content)
    ELSE p

\* SimpleBlockFlowOperatorContext.handle_piece (MLogBlockFlowOperatorContext too)
SimpleBlockFlowOperatorContext_handle_piece(p, piece, delimiter) ==
    IF piece # <<>> THEN Raise(p, exception(p, "MProcParseError", piece))
    ELSE IF delimiter = EOF THEN Raise(p, exception(p, "MProcEOFError", <<>>))
    ELSE read_statement(p)

\* a simple block that the end of the file closes
SimpleBlockFlowOperatorContext_handle_child_content_CloseAtEOF(p, content, delimiter) ==
    IF delimiter = NoDelim THEN read_statement(append(p, content))
    ELSE IF delimiter = EOF
    THEN Let(append(p, content), LAMBDA q :
             Context_save_statement(q, Top(q).content, delimiter))
    ELSE read_statement(p)

\* a simple block that drops the statements of its body
SimpleBlockFlowOperatorContext_handle_child_content_NoAppend(p, content, delimiter) ==
    IF delimiter = NoDelim THEN read_statement(p)
    ELSE IF delimiter = EOF THEN Raise(p, exception(p, "MProcEOFError", <<>>))
    ELSE read_statement(p)

\* SimpleBlockFlowOperatorContext.handle_child_content
SimpleBlockFlowOperatorContext_handle_child_content(p, content, delimiter) ==
    IF delimiter = NoDelim THEN read_statement(append(p, content))
    ELSE IF delimiter = EOF THEN Raise(p, exception(p, "MProcEOFError", <<>>))
    ELSE read_statement(p)

\* a BlockEndFlowOperatorContext that closes whatever block is open
BlockEndFlowOperatorContext_handle_piece_AnyType(p, piece, delimiter) ==
    LET q1 == Pop(p)
        nsc == Top(q1)
        q == Pop(q1)
        block_context == Top(q)
    IN  IF piece # <<>> THEN Raise(p, exception(p, "MProcParseError", piece))
        ELSE IF q1.stack = <<>> THEN Raise(q1, PythonError("IndexError"))
        ELSE IF ~IsNewStatementContext(nsc) THEN Raise(q, PythonError("AssertionError"))
        ELSE IF q.stack = <<>> THEN Raise(q, PythonError("IndexError"))
        ELSE IF ~HasContent(block_context)
        THEN Raise(q, exception(q, "MProcParseError", <<"#">> \o Top(p).name))
        ELSE save_statement(Enter(q), block_context.content, delimiter)

\* BlockEndFlowOperatorContext.handle_piece
BlockEndFlowOperatorContext_handle_piece(p, piece, delimiter) ==
    LET self == Top(p)
        q1 == Pop(p)
        nsc == Top(q1)
        q == Pop(q1)
        block_context == Top(q)
    IN  IF piece # <<>> THEN Raise(p, exception(p, "MProcParseError", piece))
        ELSE IF q1.stack = <<>> THEN Raise(q1, PythonError("IndexError"))
        ELSE IF ~IsNewStatementContext(nsc) THEN Raise(q, PythonError("AssertionError"))
        ELSE IF q.stack = <<>> THEN Raise(q, PythonError("IndexError"))
        ELSE IF ~HasContent(block_context) \/ block_context.content.type # self.content_type
        THEN Raise(q, exception(q, "MProcParseError", <<"#">> \o self.name))
        ELSE save_statement(Enter(q), block_context.content, delimiter)

\* BlockWithExpressionFlowOperatorContext.handle_piece
BlockWithExpressionFlowOperatorContext_handle_piece(p, piece, delimiter) ==
    Let(parse_token(p, piece), LAMBDA token :
      LET self == Top(p)
      IN  IF IsRaise(token) THEN Raise(p, token)
        ELSE IF delimiter = EOF THEN Raise(p, exception(p, "MProcEOFError", <<>>))
        ELSE IF delimiter = "\n"
        THEN Push(SetTop(p, [self EXCEPT !.content.expression = token,
                                         !.reading_expression = FALSE]),
                  SkipEmptyLinesContext)
        ELSE IF delimiter = "#" THEN Raise(p, exception_end(p, "MProcStructureError", <<>>))
        ELSE IF delimiter \in {"=", ")"} THEN wrong_delimiter(p, delimiter)
        ELSE IF delimiter = "," THEN create_list(p, token)
        ELSE IF delimiter = "(" THEN create_call(p, token)
        ELSE IF delimiter \in whitespace_set THEN skip_spaces(p, token, FALSE)
        ELSE p)

\* BlockWithExpressionFlowOperatorContext.handle_child_content
BlockWithExpressionFlowOperatorContext_handle_child_content(p, content, delimiter) ==
    LET self == Top(p)
    IN  IF delimiter = NoDelim
        THEN IF self.reading_expression THEN skip_spaces(p, content, FALSE)
             ELSE Push(append(p, content), SkipEmptyLinesContext)
        ELSE IF delimiter = EOF THEN Raise(p, exception(p, "MProcEOFError", <<>>))
        ELSE IF delimiter = "\n"
        THEN Push(SetTop(p, [self EXCEPT !.content.expression = content,
                                         !.reading_expression = FALSE]),
                  SkipEmptyLinesContext)
        ELSE IF delimiter \in {"=", ")"} THEN wrong_delimiter(p, delimiter)
        ELSE IF delimiter = "," THEN create_list(p, content)
        ELSE IF delimiter = "(" THEN create_call(p, content)
        ELSE p

\* a BodySwitchFlowOperatorContext that leaves the body2 flag as it is
BodySwitchFlowOperatorContext_handle_piece_NoFlip(p, piece, delimiter) ==
    LET self == Top(p)
        q1 == Pop(p)
        nsc == Top(q1)
        q == Pop(q1)
        block_context == Top(q)
    IN  IF piece # <<>> THEN Raise(p, exception(p, "MProcParseError", piece))
        ELSE IF q1.stack = <<>> THEN Raise(q1, PythonError("IndexError"))
        ELSE IF ~IsNewStatementContext(nsc) THEN Raise(q, PythonError("AssertionError"))
        ELSE IF q.stack = <<>> THEN Raise(q, PythonError("IndexError"))
        ELSE IF \/ ~HasContent(block_context)
                \/ block_context.content.type # self.content_type
                \/ ~HasBody2(block_context)
                \/ block_context.body2
        THEN Raise(q, exception(q, "MProcParseError", <<"#">> \o self.name))
        ELSE handle_child_content(q, None, NoDelim)

\* a BodySwitchFlowOperatorContext that accepts a second switch in the same block
BodySwitchFlowOperatorContext_handle_piece_Again(p, piece, delimiter) ==
    LET self == Top(p)
        q1 == Pop(p)
        nsc == Top(q1)
        q == Pop(q1)
        block_context == Top(q)
    IN  IF piece # <<>> THEN Raise(p, exception(p, "MProcParseError", piece))
        ELSE IF q1.stack = <<>> THEN Raise(q1, PythonError("IndexError"))
        ELSE IF ~IsNewStatementContext(nsc) THEN Raise(q, PythonError("AssertionError"))
        ELSE IF q.stack = <<>> THEN Raise(q, PythonError("IndexError"))
        ELSE IF \/ ~HasContent(block_context)
                \/ block_context.content.type # self.content_type
                \/ ~HasBody2(block_context)
        THEN Raise(q, exception(q, "MProcParseError", <<"#">> \o self.name))
        ELSE handle_child_content(SetTop(q, [block_context EXCEPT !.body2 = TRUE]),
                                  None, NoDelim)

\* BodySwitchFlowOperatorContext.handle_piece
BodySwitchFlowOperatorContext_handle_piece(p, piece, delimiter) ==
    LET self == Top(p)
        q1 == Pop(p)
        nsc == Top(q1)
        q == Pop(q1)
        block_context == Top(q)
    IN  IF piece # <<>> THEN Raise(p, exception(p, "MProcParseError", piece))
        ELSE IF q1.stack = <<>> THEN Raise(q1, PythonError("IndexError"))
        ELSE IF ~IsNewStatementContext(nsc) THEN Raise(q, PythonError("AssertionError"))
        ELSE IF q.stack = <<>> THEN Raise(q, PythonError("IndexError"))
        ELSE IF \/ ~HasContent(block_context)
                \/ block_context.content.type # self.content_type
                \/ ~HasBody2(block_context)
                \/ block_context.body2
        THEN Raise(q, exception(q, "MProcParseError", <<"#">> \o self.name))
        ELSE handle_child_content(SetTop(q, [block_context EXCEPT !.body2 = TRUE]),
                                  None, NoDelim)

\* FunctionFlowOperatorContext.handle_piece (RawFunctionFlowOperatorContext too)
FunctionFlowOperatorContext_handle_piece(p, piece, delimiter) ==
    Let(parse_token(p, piece), LAMBDA token :
      LET self == Top(p)
      IN  IF IsRaise(token) THEN Raise(p, token)
        ELSE IF delimiter = EOF THEN Raise(p, exception(p, "MProcEOFError", <<>>))
        ELSE IF delimiter = "\n"
        THEN read_statement(SetTop(p, [self EXCEPT !.reading_definition = FALSE,
                                                   !.content.definition = token]))
        ELSE IF delimiter = "#" THEN Raise(p, exception_end(p, "MProcStructureError", <<>>))
        ELSE IF delimiter \in {"=", ")"} THEN wrong_delimiter(p, delimiter)
        ELSE IF delimiter = "," THEN create_list(p, token)
        ELSE IF delimiter = "(" THEN create_call(p, token)
        ELSE IF delimiter \in whitespace_set THEN skip_spaces(p, token, FALSE)
        ELSE p)

\* FunctionFlowOperatorContext.handle_child_content
FunctionFlowOperatorContext_handle_child_content(p, content, delimiter) ==
    LET self == Top(p)
    IN  IF delimiter = NoDelim
        THEN IF self.reading_definition
             THEN Push(p, SearchForReturnContext(content, FALSE))
             ELSE read_statement(append(p, content))
        ELSE IF delimiter = EOF THEN Raise(p, exception(p, "MProcEOFError", <<>>))
        ELSE IF delimiter = "\n"
        THEN read_statement(SetTop(p, [self EXCEPT !.reading_definition = FALSE,
                                                   !.content.definition = content]))
        ELSE IF delimiter \in {"=", ")"} THEN wrong_delimiter(p, delimiter)
        ELSE IF delimiter = "," THEN create_list(p, content)
        ELSE IF delimiter = "(" THEN create_call(p, content)
        ELSE p

\* MustBeArrowContext.handle_piece
MustBeArrowContext_handle_piece(p, piece, delimiter) ==
    IF piece # <<">">> THEN Raise(p, exception(p, "MProcParseError", <<"-">> \o piece))
    ELSE Push(Pop(p), FunctionDefinitionContext(Top(p).content))

\* FunctionDefinitionContext.save_statement
FunctionDefinitionContext_save_statement(p, token, delimiter) ==
    LET content == Top(p).content
    IN  Context_save_statement(
            p, FunctionDefinition(content.line, content.symbol, content, token), delimiter)

\* FunctionDefinitionContext.handle_piece
FunctionDefinitionContext_handle_piece(p, piece, delimiter) ==
    Let(parse_token(p, piece), LAMBDA token :
        IF IsRaise(token) THEN Raise(p, token)
        ELSE IF delimiter \in {EOF, "\n"} THEN save_statement(p, token, delimiter)
        ELSE IF delimiter = "#" THEN Raise(p, exception_end(p, "MProcStructureError", <<>>))
        ELSE IF delimiter \in {"=", ")"} THEN wrong_delimiter(p, delimiter)
        ELSE IF delimiter = "," THEN create_list(p, token)
        ELSE IF delimiter = "(" THEN create_call(p, token)
        ELSE IF delimiter \in whitespace_set THEN skip_spaces(p, token, FALSE)
        ELSE p)

\* FunctionDefinitionContext.handle_child_content: the first if has no else, so
\* a None delimiter reaches the membership test `delimiter in "\n"` (TypeError)
FunctionDefinitionContext_handle_child_content(p, content, delimiter) ==
    IF delimiter = NoDelim
    THEN Raise(skip_spaces(p, content, FALSE), PythonError("TypeError"))
    ELSE IF delimiter \in {EOF, "\n"} THEN save_statement(p, content, delimiter)
    ELSE IF delimiter \in {"=", ")"} THEN wrong_delimiter(p, delimiter)
    ELSE IF delimiter = "," THEN create_list(p, content)
    ELSE IF delimiter = "(" THEN create_call(p, content)
    ELSE p

\* the text after the last newline of a raw chunk: piece.rsplit("\n", 1)[-1]
LastLine(piece) ==
    LET nl == {i \in 1..Len(piece) : piece[i] = "\n"}
    IN  IF nl = {} THEN piece
        ELSE Drop(piece, CHOOSE i \in nl : \A j \in nl : j <= i)

\* MLogEndContext.handle_piece
MLogEndContext_handle_piece(p, piece, delimiter) ==
    IF delimiter # "#" THEN Raise(p, PythonError("AssertionError"))
    ELSE Push(p, BlockEndOnlyContext)

\* an MLogContext that takes the end of the file for the end of the body
MLogContext_handle_piece_AtEnd(p, piece, delimiter) ==
    LET q == Pop(p)
    IN  IF \E i \in 1..Len(LastLine(piece)) :
               LastLine(piece)[i] \notin whitespace_set \cup {"\n"}
        THEN Raise(p, exception_end(p, "MProcStructureError", <<>>))
        ELSE IF q.stack = <<>> THEN Raise(q, PythonError("IndexError"))
        ELSE MLogEndContext_handle_piece(Push(append(q, piece), MLogEndContext),
                                         <<>>, delimiter)

\* MLogContext.handle_piece
MLogContext_handle_piece(p, piece, delimiter) ==
    LET q == Pop(p)
    IN  IF delimiter = EOF THEN Raise(p, exception(p, "MProcEOFError", <<>>))
        ELSE IF \E i \in 1..Len(LastLine(piece)) :
                    LastLine(piece)[i] \notin whitespace_set \cup {"\n"}
        THEN Raise(p, exception_end(p, "MProcStructureError", <<>>))
        ELSE IF q.stack = <<>> THEN Raise(q, PythonError("IndexError"))
        ELSE MLogEndContext_handle_piece(Push(append(q, piece), MLogEndContext),
                                         <<>>, delimiter)

\* ExpectedFlowOperatorContext.handle_piece: replace self with the context of the
\* flow operator named by piece
ExpectedFlowOperatorContext_handle_piece(p, piece, delimiter) ==
    LET q == Pop(p)
        line == p.line_start
        symbol == p.symbol_start - 1
        ctx ==
          CASE piece \in DOMAIN self_sufficient_operators ->
                 SelfSufficientFlowOperatorContext(
                     Node0(self_sufficient_operators[piece], line, symbol))
            [] piece \in DOMAIN expression_required_operators ->
                 ExpressionAllowedFlowOperatorContext(
                     ExpressionNode(expression_required_operators[piece], line, symbol, None),
                     TRUE)
            [] piece \in DOMAIN expression_allowed_operators ->
                 ExpressionAllowedFlowOperatorContext(
                     ExpressionNode(expression_allowed_operators[piece], line, symbol, None),
                     FALSE)
            [] piece \in DOMAIN simple_block_operators ->
                 SimpleBlockFlowOperatorContext(
                     BodyNode(simple_block_operators[piece], line, symbol, <<>>))
            [] piece \in DOMAIN block_end_operators ->
                 BlockEndFlowOperatorContext(block_end_operators[piece], piece)
            [] piece \in DOMAIN block_with_expression_operators ->
                 BlockWithExpressionFlowOperatorContext(
                     TwoBodyNode(block_with_expression_operators[piece], line, symbol,
                                 None, <<>>, <<>>))
            [] piece \in DOMAIN body_switch_operators ->
                 BodySwitchFlowOperatorContext(body_switch_operators[piece], piece)
            [] piece \in DOMAIN function_operators ->
                 FunctionFlowOperatorContext(
                     DefinitionNode(function_operators[piece], line, symbol, None, <<>>))
            [] piece \in DOMAIN raw_func_operators ->
                 RawFunctionFlowOperatorContext(
                     DefinitionNode(raw_func_operators[piece], line, symbol, None, <<>>))
            [] piece \in DOMAIN mlog_operators ->
                 MLogBlockFlowOperatorContext(
                     BodyNode(mlog_operators[piece], line, symbol, <<>>))
            [] OTHER -> None
    IN  IF delimiter \notin whitespace_set \cup {"\n", EOF} THEN wrong_delimiter(p, delimiter)
        ELSE IF ctx = None
        THEN Raise(q, exception(q, "MProcInvalidFlowOperatorError", piece))
        ELSE IF delimiter \in {EOF, "\n"} THEN handle_piece(Push(q, ctx), <<>>, delimiter)
        ELSE Push(q, ctx)

\* BlockEndOnlyContext.handle_piece
BlockEndOnlyContext_handle_piece(p, piece, delimiter) ==
    IF piece \notin DOMAIN block_end_operators
    THEN Raise(p, exception(p, "MProcParseError", <<"#">> \o piece))
    ELSE ExpectedFlowOperatorContext_handle_piece(p, piece, delimiter)

\* ListContext.save_statement
ListContext_save_statement(p, token, delimiter) ==
    Let(append(p, token), LAMBDA q : Context_save_statement(q, Top(q).content, delimiter))

\* ListContext.handle_piece
ListContext_handle_piece(p, piece, delimiter) ==
    Let(parse_token_or_None(p, piece), LAMBDA token :
        IF IsRaise(token) THEN Raise(p, token)
        ELSE IF delimiter \in {EOF, "\n", ")"} THEN save_statement(p, token, delimiter)
        ELSE IF delimiter \in whitespace_set THEN skip_spaces(p, token, FALSE)
        ELSE IF delimiter = "," THEN append(p, token)
        ELSE IF delimiter = "#" THEN Raise(p, exception_end(p, "MProcStructureError", <<>>))
        ELSE IF delimiter = "(" THEN create_call(p, token)
        ELSE IF delimiter = "=" THEN create_assignment(p, token)
        ELSE p)

\* ListContext.handle_child_content
ListContext_handle_child_content(p, content, delimiter) ==
    IF delimiter = NoDelim THEN skip_spaces(p, content, FALSE)
    ELSE IF delimiter \in {EOF, ")"} THEN save_statement(p, content, delimiter)
    ELSE IF delimiter = "," THEN append(p, content)
    ELSE IF delimiter = "(" THEN create_call(p, content)
    ELSE IF delimiter = "=" THEN create_assignment(p, content)
    ELSE IF delimiter = "\n" THEN save_statement(p, content, delimiter)
    ELSE p

\* CallContext.save_statement
CallContext_save_statement(p, token, delimiter) ==
    LET caller == Top(p).caller
    IN  Context_save_statement(p, Call(caller.line, caller.symbol, caller, token), delimiter)

\* CallContext.handle_piece
CallContext_handle_piece(p, piece, delimiter) ==
    Let(parse_token_or_None(p, piece), LAMBDA token :
        IF IsRaise(token) THEN Raise(p, token)
        ELSE IF delimiter = ")" THEN save_statement(p, token, NoDelim)
        ELSE IF delimiter \in whitespace_set \cup {"\n"} THEN skip_spaces(p, token, TRUE)
        ELSE IF delimiter = "#" THEN Raise(p, exception_end(p, "MProcStructureError", <<>>))
        ELSE IF delimiter = "=" THEN create_assignment(p, token)
        ELSE IF delimiter = "," THEN create_list(p, token)
        ELSE IF delimiter = "(" THEN create_call(p, token)
        ELSE IF delimiter = EOF THEN Raise(p, exception(p, "MProcEOFError", <<>>))
        ELSE p)

\* CallContext.handle_child_content
CallContext_handle_child_content(p, content, delimiter) ==
    IF delimiter = NoDelim THEN skip_spaces(p, content, TRUE)
    ELSE IF delimiter = ")" THEN save_statement(p, content, NoDelim)
    ELSE IF delimiter = "#" THEN Raise(p, exception_end(p, "MProcStructureError", <<>>))
    ELSE IF delimiter = "\n" THEN skip_spaces(p, content, TRUE)
    ELSE IF delimiter = "=" THEN create_assignment(p, content)
    ELSE IF delimiter = "," THEN create_list(p, content)
    ELSE IF delimiter = "(" THEN create_call(p, content)
    ELSE IF delimiter = EOF THEN Raise(p, exception(p, "MProcEOFError", <<>>))
    ELSE p

\* the hooks marked "may not have children": assert 0
NoChildren(p) == Raise(p, PythonError("AssertionError"))

\* the virtual call self.save_statement(token, delimiter) on the top frame
save_statement_method(p, token, delimiter) ==
    LET kind == Top(p).kind
    IN  CASE kind \in {"RightHandSideContext", "NamedArgumentRightHandSideContext"}
               -> RightHandSideContext_save_statement(p, token, delimiter)
          [] kind = "ExpressionAllowedFlowOperatorContext"
               -> ExpressionAllowedFlowOperatorContext_save_statement(p, token, delimiter)
          [] kind = "FunctionDefinitionContext"
               -> FunctionDefinitionContext_save_statement(p, token, delimiter)
          [] kind \in {"ListContext", "ArgumentListContext"}
               -> ListContext_save_statement(p, token, delimiter)
          [] kind = "CallContext" -> CallContext_save_statement(p, token, delimiter)
          [] OTHER -> Context_save_statement(p, token, delimiter)

\* the virtual call handle_child_content(content, delimiter) on the top frame
handle_child_content_method(p, content, delimiter) ==
    LET kind == Top(p).kind
    IN  CASE kind = "RootContext" -> RootContext_handle_child_content(p, content, delimiter)
          [] kind = "SkipEmptyLinesContext" -> p
          [] kind \in {"NewStatementContext", "MLogEndContext"}
               -> NewStatementContext_handle_child_content(p, content, delimiter)
          [] kind \in {"RightHandSideContext", "NamedArgumentRightHandSideContext"}
               -> RightHandSideContext_handle_child_content(p, content, delimiter)
          [] kind = "ExpressionAllowedFlowOperatorContext"
               -> ExpressionAllowedFlowOperatorContext_handle_child_content(p, content, delimiter)
          [] kind \in {"SimpleBlockFlowOperatorContext", "MLogBlockFlowOperatorContext"}
               -> SimpleBlockFlowOperatorContext_handle_child_content(p, content, delimiter)
          [] kind = "BlockWithExpressionFlowOperatorContext"
               -> BlockWithExpressionFlowOperatorContext_handle_child_content(p, content, delimiter)
          [] kind \in {"FunctionFlowOperatorContext", "RawFunctionFlowOperatorContext"}
               -> FunctionFlowOperatorContext_handle_child_content(p, content, delimiter)
          [] kind = "FunctionDefinitionContext"
               -> FunctionDefinitionContext_handle_child_content(p, content, delimiter)
          [] kind \in {"ListContext", "ArgumentListContext"}
               -> ListContext_handle_child_content(p, content, delimiter)
          [] kind = "CallContext" -> CallContext_handle_child_content(p, content, delimiter)
          [] OTHER -> NoChildren(p)

\* the call context.handle_piece(piece, delimiter) on the top frame
handle_piece_method(p, piece, delimiter) ==
    LET kind == Top(p).kind
    IN  CASE kind = "RootContext" -> RootContext_handle_piece(p, piece, delimiter)
          [] kind = "SkipEmptyLinesContext" -> SkipEmptyLinesContext_handle_piece(p, piece, delimiter)
          [] kind = "NewStatementContext" -> NewStatementContext_handle_piece(p, piece, delimiter)
          [] kind = "SkipSpacesContext" -> SkipSpacesContext_handle_piece(p, piece, delimiter)
          [] kind \in {"RightHandSideContext", "NamedArgumentRightHandSideContext"}
               -> RightHandSideContext_handle_piece(p, piece, delimiter)
          [] kind = "ExpectedFlowOperatorContext"
               -> ExpectedFlowOperatorContext_handle_piece(p, piece, delimiter)
          [] kind = "SelfSufficientFlowOperatorContext"
               -> SelfSufficientFlowOperatorContext_handle_piece(p, piece, delimiter)
          [] kind = "ExpressionAllowedFlowOperatorContext"
               -> ExpressionAllowedFlowOperatorContext_handle_piece(p, piece, delimiter)
          [] kind \in {"SimpleBlockFlowOperatorContext", "MLogBlockFlowOperatorContext"}
               -> SimpleBlockFlowOperatorContext_handle_piece(p, piece, delimiter)
          [] kind = "BlockEndFlowOperatorContext"
               -> BlockEndFlowOperatorContext_handle_piece(p, piece, delimiter)
          [] kind = "BlockWithExpressionFlowOperatorContext"
               -> BlockWithExpressionFlowOperatorContext_handle_piece(p, piece, delimiter)
          [] kind = "BodySwitchFlowOperatorContext"
               -> BodySwitchFlowOperatorContext_handle_piece(p, piece, delimiter)
          [] kind \in {"FunctionFlowOperatorContext", "RawFunctionFlowOperatorContext"}
               -> FunctionFlowOperatorContext_handle_piece(p, piece, delimiter)
          [] kind = "SearchForReturnContext"
               -> SearchForReturnContext_handle_piece(p, piece, delimiter)
          [] kind = "MustBeArrowContext" -> MustBeArrowContext_handle_piece(p, piece, delimiter)
          [] kind = "FunctionDefinitionContext"
               -> FunctionDefinitionContext_handle_piece(p, piece, delimiter)
          [] kind = "MLogContext" -> MLogContext_handle_piece(p, piece, delimiter)
          [] kind = "MLogEndContext" -> MLogEndContext_handle_piece(p, piece, delimiter)
          [] kind = "BlockEndOnlyContext" -> BlockEndOnlyContext_handle_piece(p, piece, delimiter)
          [] kind \in {"ListContext", "ArgumentListContext"}
               -> ListContext_handle_piece(p, piece, delimiter)
          [] kind = "CallContext" -> CallContext_handle_piece(p, piece, delimiter)

invoke(method, p, x, delimiter) ==
    CASE method = "handle_piece" -> handle_piece_method(Enter(p), x, delimiter)
      [] method = "handle_child_content"
           -> handle_child_content_method(Enter(p), x, delimiter)
      [] method = "save_statement" -> save_statement_method(p, x, delimiter)

----------------------------------------------------------------------------
(* Parser.run *)

\* Parser.__init__ and the first lines of run(): the root context is on the stack
NewParser(file, complete) ==
    [input |-> file, eof |-> complete, pos |-> 0,
     stack |-> <<RootContext>>, root |-> Root(1, 1, <<>>),
     line_start |-> 1, symbol_start |-> 0, line_end |-> 1, symbol_end |-> 0,
     inc_line |-> FALSE, exc |-> None,
     status |-> "running", diagnostic |-> None, exit_status |-> -1, returned |-> None,
     ids |-> <<1>>, born |-> 1, active |-> 0, delivered |-> <<>>]

\* the lexer call of one iteration of the loop of run()
NextPiece(p) ==
    LET context == Top(p)
    IN  read_piece(p, delimiters(context), allow_spaces(context),
                   endl_as_whitespace(context), exact_symbols(context))

\* an except clause that exits with exit(1)
Abort_ExitOne(p) ==
    [p EXCEPT !.status = "error", !.diagnostic = p.exc, !.exit_status = 1, !.exc = None]

\* an except clause that writes the diagnostic and goes on with the loop
Abort_KeepRunning(p) == [p EXCEPT !.diagnostic = p.exc, !.exc = None]

\* the except clause of run(): the diagnostic is written to stderr and the process
\* exits with exit(0)
Abort(p) ==
    [p EXCEPT !.status = "error", !.diagnostic = p.exc, !.exit_status = 0, !.exc = None]

\* an exception run() does not catch ends the process with a traceback
Crash(p) ==
    [p EXCEPT !.status = "crash", !.diagnostic = p.exc, !.exit_status = 1, !.exc = None]

\* one iteration of the while loop of run(), and the return once the stack is empty
Iteration(p) ==
    Let(NextPiece(p), LAMBDA r :
    Let(IF Raised(r.p) THEN r.p ELSE handle_piece(r.p, r.piece, r.delimiter), LAMBDA q :
      IF Raised(q)
      THEN IF q.exc.kind \in ParseErrorKinds THEN Abort(q) ELSE Crash(q)
      ELSE IF q.stack = <<>> THEN [q EXCEPT !.status = "returned", !.returned = q.root]
      ELSE q))

\* run() on a whole file
RECURSIVE Run(_)
Run(p) == IF p.status # "running" THEN p ELSE Run(Iteration(p))

parse(file) == Run(NewParser(file, TRUE))

----------------------------------------------------------------------------
(* The state machine *)

P == [input |-> input, eof |-> eof, pos |-> pos, stack |-> stack, root |-> root,
      line_start |-> line_start, symbol_start |-> symbol_start,
      line_end |-> line_end, symbol_end |-> symbol_end, inc_line |-> inc_line,
      exc |-> None, status |-> status, diagnostic |-> diagnostic,
      exit_status |-> exit_status, returned |-> returned,
      ids |-> [k \in 1..Len(stack) |-> k], born |-> Len(stack), active |-> 0,
      delivered |-> <<>>]

Becomes(q) ==
    /\ input' = q.input /\ eof' = q.eof /\ pos' = q.pos
    /\ stack' = q.stack /\ root' = q.root
    /\ line_start' = q.line_start /\ symbol_start' = q.symbol_start
    /\ line_end' = q.line_end /\ symbol_end' = q.symbol_end
    /\ inc_line' = q.inc_line
    /\ status' = q.status /\ diagnostic' = q.diagnostic
    /\ exit_status' = q.exit_status /\ returned' = q.returned

\* the text of a flow operator: the hash sign, the keyword and what follows it
Flow(keyword, tail) == <<"#">> \o keyword \o tail

\* The files of the model are the concatenations of the fragments of one family:
\* plain statements, calls and lists, blocks, definitions, and the headers and
\* end-words of every block kind.  A flow operator that is not the first thing of
\* the file comes with the newline before it.
StatementFragments ==
    {<<"a">>, <<"1">>, <<"\"", "s", "\"">>, <<"\"">>, <<" ">>, <<"\t">>, <<"\n">>,
     <<",">>, <<"=">>, <<"/", "c">>}

CallFragments ==
    {<<"a">>, <<"f", "(">>, <<"k", "=">>, <<"(">>, <<")">>, <<",">>, <<" ">>,
     <<"\n">>, <<"/", "c">>}

BlockFragments ==
    {Flow(<<"p", "r", "o", "g">>, <<>>),
     <<"\n">> \o Flow(<<"i", "f">>, <<" ", "a">>),
     <<"\n">> \o Flow(<<"e", "l", "s", "e">>, <<>>),
     <<"\n">> \o Flow(<<"e", "n", "d", "i", "f">>, <<>>),
     <<"\n">> \o Flow(<<"e", "n", "d", "p", "r", "o", "g">>, <<>>),
     <<"\n">> \o Flow(<<"e", "n", "d", "l", "o", "o", "p">>, <<>>),
     <<"\n">> \o Flow(<<"b", "r", "e", "a", "k">>, <<>>),
     <<"\n">> \o Flow(<<"r", "e", "t", "u", "r", "n">>, <<>>),
     <<"a">>, <<" ">>, <<"\n">>, <<"/", "c">>}

DefinitionFragments ==
    {Flow(<<"f", "u", "n", "c">>, <<" ", "f", "(", "a", ")">>),
     <<"\n">> \o Flow(<<"e", "n", "d", "f", "u", "n", "c">>, <<>>),
     Flow(<<"r", "a", "w", "f", "u", "n", "c">>, <<" ", "f", "(", "a", ")">>),
     <<"\n">> \o Flow(<<"e", "n", "d", "r", "a", "w", "f", "u", "n", "c">>, <<>>),
     Flow(<<"m", "l", "o", "g">>, <<>>),
     <<"\n">> \o Flow(<<"e", "n", "d", "m", "l", "o", "g">>, <<>>),
     <<"-", ">">>, <<"r">>, <<" ">>, <<"\n">>}

\* every block kind with a minimal header, and every end-word
KeywordFragments ==
    {<<"\n">> \o Flow(k, <<>>) :
        k \in DOMAIN simple_block_operators \cup DOMAIN mlog_operators
              \cup DOMAIN block_end_operators}
    \cup {<<"\n">> \o Flow(k, <<" ", "a">>) : k \in DOMAIN block_with_expression_operators}
    \cup {<<"\n">> \o Flow(k, <<" ", "f", "(", "a", ")">>) :
             k \in DOMAIN function_operators \cup DOMAIN raw_func_operators}

\* a family: its fragments and the number of fragments of its files
Families ==
    {[fragments |-> StatementFragments, max |-> MaxFrags],
     [fragments |-> CallFragments, max |-> MaxFrags],
     [fragments |-> BlockFragments, max |-> MaxFrags],
     [fragments |-> DefinitionFragments, max |-> MaxFrags],
     [fragments |-> KeywordFragments, max |-> MaxKeywords]}

Fragments == UNION {family.fragments : family \in Families}

Running == status = "running"

\* the lexer needs a character of the file that is not known yet
NeedMore == Running /\ NextPiece(P).more

\* the next fragment of the file becomes known
Feed ==
    /\ NeedMore
    /\ \E f \in Fragments :
         /\ \E family \in Families :
              /\ Len(fed) < family.max
              /\ f \in family.fragments
              /\ \A i \in 1..Len(fed) : fed[i] \in family.fragments
         /\ input' = input \o f
         /\ fed' = Append(fed, f)
    /\ UNCHANGED <<eof, pos, stack, root, line_start, symbol_start, line_end,
                   symbol_end, inc_line, status, diagnostic, exit_status, returned,
                   piece_in, token_out>>

\* the file ends here
CloseFile ==
    /\ NeedMore
    /\ eof' = TRUE
    /\ UNCHANGED <<input, pos, stack, root, line_start, symbol_start, line_end,
                   symbol_end, inc_line, status, diagnostic, exit_status, returned,
                   fed, piece_in, token_out>>

\* a context of one of the given classes is on top of the stack
OnTop(kinds) == Running /\ Top(P).kind \in kinds

\* one iteration of the loop of run()
Step ==
    /\ ~NeedMore
    /\ Becomes(Iteration(P))
    /\ UNCHANGED <<fed, piece_in, token_out>>

RootStep == OnTop({"RootContext"}) /\ Step
SkipEmptyLinesStep == OnTop({"SkipEmptyLinesContext"}) /\ Step
SkipSpacesStep == OnTop({"SkipSpacesContext"}) /\ Step
RightHandSideStep == OnTop({"RightHandSideContext", "NamedArgumentRightHandSideContext"}) /\ Step
ExpectedFlowOperatorStep == OnTop({"ExpectedFlowOperatorContext"}) /\ Step
SelfSufficientStep == OnTop({"SelfSufficientFlowOperatorContext"}) /\ Step
ExpressionAllowedStep == OnTop({"ExpressionAllowedFlowOperatorContext"}) /\ Step
SimpleBlockStep == OnTop({"SimpleBlockFlowOperatorContext", "MLogBlockFlowOperatorContext"}) /\ Step
BlockEndStep == OnTop({"BlockEndFlowOperatorContext"}) /\ Step
BlockWithExpressionStep == OnTop({"BlockWithExpressionFlowOperatorContext"}) /\ Step
BodySwitchStep == OnTop({"BodySwitchFlowOperatorContext"}) /\ Step
FunctionStep == OnTop({"FunctionFlowOperatorContext", "RawFunctionFlowOperatorContext"}) /\ Step
SearchForReturnStep == OnTop({"SearchForReturnContext"}) /\ Step
MustBeArrowStep == OnTop({"MustBeArrowContext"}) /\ Step
FunctionDefinitionStep == OnTop({"FunctionDefinitionContext"}) /\ Step
MLogStep == OnTop({"MLogContext"}) /\ Step
BlockEndOnlyStep == OnTop({"BlockEndOnlyContext"}) /\ Step
ListStep == OnTop({"ListContext", "ArgumentListContext"}) /\ Step
CallStep == OnTop({"CallContext"}) /\ Step

Init ==
    /\ input = <<>> /\ eof = FALSE /\ fed = <<>>
    /\ pos = 0 /\ stack = <<RootContext>> /\ root = Root(1, 1, <<>>)
    /\ line_start = 1 /\ symbol_start = 0 /\ line_end = 1 /\ symbol_end = 0
    /\ inc_line = FALSE
    /\ status = "running" /\ diagnostic = None /\ exit_status = -1 /\ returned = None
    /\ piece_in = <<>> /\ token_out = None

Next ==
    \/ Feed \/ CloseFile
    \/ RootStep \/ SkipEmptyLinesStep \/ SkipSpacesStep
    \/ RightHandSideStep \/ ExpectedFlowOperatorStep \/ SelfSufficientStep
    \/ ExpressionAllowedStep \/ SimpleBlockStep \/ BlockEndStep
    \/ BlockWithExpressionStep \/ BodySwitchStep \/ FunctionStep
    \/ SearchForReturnStep \/ MustBeArrowStep \/ FunctionDefinitionStep
    \/ MLogStep \/ BlockEndOnlyStep \/ ListStep \/ CallStep

Spec == Init /\ [][Next]_vars

\* Weak fairness of Next, written out.  The file is finite and every read of it
\* returns, and run() goes on with its loop while the stack is not empty: a run that
\* has not ended takes a step of Next again and again.
SpecFair == Init /\ [][Next]_vars /\ ([]<>(status # "running") \/ []<><<Next>>_vars)

----------------------------------------------------------------------------
(* The token classifier on its own: parse_token applied to one piece *)

\* the characters of the pieces handed to parse_token
PieceAlphabet == {"0", "1", "x", "b", "f", "e", "_", "-", ".", "\""}

RECURSIVE PiecesOfLen(_)
PiecesOfLen(n) ==
    IF n = 0 THEN {<<>>}
    ELSE {Append(s, c) : s \in PiecesOfLen(n - 1), c \in PieceAlphabet}

\* the digits of v in the base, most significant first, as str(), hex() and bin()
\* write them
RECURSIVE Digits(_, _)
Digits(v, base) ==
    LET digit == CHOOSE c \in {"0", "1", "2", "3", "4", "5", "6", "7", "8", "9",
                               "a", "b", "c", "d", "e", "f"} : DigitVal[c] = v % base
    IN  IF v < base THEN <<digit>> ELSE Append(Digits(v \div base, base), digit)

Decimal(v) == Digits(v, 10)
Hexadecimal(v) == <<"0", "x">> \o Digits(v, 16)
Binary(v) == <<"0", "b">> \o Digits(v, 2)

LiteralValues == {0, 1, 255, 4095}
Forms(v) == {Decimal(v), Hexadecimal(v), Binary(v)}

Pieces ==
    UNION {PiecesOfLen(n) : n \in 0..MaxPieceLen} \cup UNION {Forms(v) : v \in LiteralValues}

InitTok ==
    /\ piece_in \in Pieces /\ token_out = None
    /\ input = <<>> /\ eof = FALSE /\ fed = <<>>
    /\ pos = 0 /\ stack = <<RootContext>> /\ root = Root(1, 1, <<>>)
    /\ line_start = 1 /\ symbol_start = 1 /\ line_end = 1 /\ symbol_end = 1
    /\ inc_line = FALSE
    /\ status = "running" /\ diagnostic = None /\ exit_status = -1 /\ returned = None

\* parse_token(piece_in)
Classify ==
    /\ token_out = None
    /\ token_out' = parse_token(P, piece_in)
    /\ UNCHANGED <<input, eof, pos, stack, root, line_start, symbol_start, line_end,
                   symbol_end, inc_line, status, diagnostic, exit_status, returned,
                   fed, piece_in>>

NextTok == Classify

SpecTok == InitTok /\ [][NextTok]_vars

----------------------------------------------------------------------------
(* run() on a file that is known from the start *)

\* a line of the file
Line(text) == text \o <<"\n">>

FileFragments ==
    {<<"a">>, <<"\"", "s", "\"">>, <<"f", "(">>, <<"k", "=">>, <<")">>, <<",">>,
     <<"=">>, <<" ">>, <<"\n">>, <<"/", "c">>}

RECURSIVE Concat(_)
Concat(fragments) ==
    IF fragments = <<>> THEN <<>> ELSE Head(fragments) \o Concat(Tail(fragments))

InitFile ==
    /\ fed \in UNION {[1..n -> FileFragments] : n \in 0..MaxFileFrags}
    /\ input = Concat(fed) /\ eof = TRUE
    /\ pos = 0 /\ stack = <<RootContext>> /\ root = Root(1, 1, <<>>)
    /\ line_start = 1 /\ symbol_start = 0 /\ line_end = 1 /\ symbol_end = 0
    /\ inc_line = FALSE
    /\ status = "running" /\ diagnostic = None /\ exit_status = -1 /\ returned = None
    /\ piece_in = <<>> /\ token_out = None

\* run() from its first iteration to its end
ParseFile ==
    /\ Running
    /\ Becomes(Run(P))
    /\ UNCHANGED <<fed, piece_in, token_out>>

NextFile == ParseFile

SpecFile == InitFile /\ [][NextFile]_vars

\* the files of at most max fragments
FilesOf(fragments, max) == UNION {[1..n -> fragments] : n \in 0..max}

\* run() is about to start on one of the files
StartOn(files) ==
    /\ fed \in files
    /\ input = Concat(fed) /\ eof = TRUE
    /\ pos = 0 /\ stack = <<RootContext>> /\ root = Root(1, 1, <<>>)
    /\ line_start = 1 /\ symbol_start = 0 /\ line_end = 1 /\ symbol_end = 0
    /\ inc_line = FALSE
    /\ status = "running" /\ diagnostic = None /\ exit_status = -1 /\ returned = None
    /\ piece_in = <<>> /\ token_out = None

\* assignments and comma lists, with the line end that closes them
ListFragments == {<<"a">>, <<"1">>, <<",">>, <<"=">>, <<" ">>, <<"\n">>}

InitLists == StartOn(FilesOf(ListFragments, MaxListFrags))

SpecLists == InitLists /\ [][NextFile]_vars

\* calls with their arguments, nested calls and line ends between the arguments
CallFileFragments ==
    {<<"f", "(">>, <<"g", "(">>, <<"a">>, <<",", "1">>, <<")">>, <<"\n">>}

InitCalls == StartOn(FilesOf(CallFileFragments, MaxCallFrags))

SpecCalls == InitCalls /\ [][NextFile]_vars

\* calls with positional and named arguments whose values are tokens, literals
\* and calls
NamedFragments ==
    {<<"f", "(">>, <<"k", "=">>, <<"g", "(", "x", ")">>, <<"a">>, <<"1">>, <<",">>,
     <<")">>}

InitNamed == StartOn(FilesOf(NamedFragments, MaxNamedFrags))

SpecNamed == InitNamed /\ [][NextFile]_vars

\* call parentheses with tokens, literals, calls and `=` in any order
LhsFragments ==
    {<<"f", "(">>, <<"g", "(", "x", ")">>, <<"a">>, <<"1">>, <<"=">>, <<",">>, <<")">>}

InitLhs == StartOn(FilesOf(LhsFragments, MaxLhsFrags))

SpecLhs == InitLhs /\ [][NextFile]_vars

\* statements, assignments, lists and calls, alone and inside a def block
DeliveryFragments ==
    {<<"a">>, <<"f", "(">>, <<")">>, <<",">>, <<"=">>, <<" ">>, <<"\n">>,
     Line(Flow(<<"d", "e", "f">>, <<>>)), Line(Flow(<<"e", "n", "d", "d", "e", "f">>, <<>>))}

InitDelivery == StartOn(FilesOf(DeliveryFragments, MaxDeliveryFrags))

SpecDelivery == InitDelivery /\ [][NextFile]_vars

\* the keywords that take an expression, and what may follow them: a blank, a line
\* end, a token and the delimiters of an expression
ExpressionFragments ==
    {Flow(k, <<>>) :
        k \in DOMAIN expression_required_operators \cup DOMAIN expression_allowed_operators}
    \cup {<<" ">>, <<"\n">>, <<"a">>, <<",">>, <<"=">>, <<"(">>, <<")">>, <<"#">>}

InitExpressions == StartOn(FilesOf(ExpressionFragments, MaxExpressionFrags))

SpecExpressions == InitExpressions /\ [][NextFile]_vars

\* the header of a func, enum or rawfunc block: the signature, the arrow, a return
\* expression that is a token, a comma list or a call, and the end-word line
HeaderFragments ==
    {Flow(k, <<" ", "f", "(", "a", ")">>) :
        k \in DOMAIN function_operators \cup DOMAIN raw_func_operators}
    \cup {<<"\n">> \o Line(Flow(<<"e", "n", "d">> \o k, <<>>)) :
             k \in DOMAIN function_operators \cup DOMAIN raw_func_operators}
    \cup {<<" ", "-", ">", " ">>, <<"r">>, <<"r", ",", "s">>, <<"g", "(", "b", ")">>}

InitHeaders == StartOn(FilesOf(HeaderFragments, MaxHeaderFrags))

SpecHeaders == InitHeaders /\ [][NextFile]_vars

\* the header line and the end-word line of an mlog and of a rawfunc block, the
\* characters of a raw text and the `#` on its own
RawFragments ==
    {Line(Flow(<<"m", "l", "o", "g">>, <<>>)),
     Line(Flow(<<"r", "a", "w", "f", "u", "n", "c">>, <<" ", "f", "(", "a", ")">>)),
     Line(Flow(<<"e", "n", "d", "m", "l", "o", "g">>, <<>>)),
     Line(Flow(<<"e", "n", "d", "r", "a", "w", "f", "u", "n", "c">>, <<>>)),
     <<"a">>, <<" ">>, <<"/">>, <<"\"">>, <<"\n">>, <<"#">>}

InitRaw == StartOn(FilesOf(RawFragments, MaxRawFrags))

SpecRaw == InitRaw /\ [][NextFile]_vars

----------------------------------------------------------------------------
(* read_symbol() on a file that is known from the start, one call at a time *)

\* the characters of the files: a letter, a blank and the newline
ReadAlphabet == {<<"a">>, <<" ">>, <<"\n">>}

InitRead == StartOn(FilesOf(ReadAlphabet, MaxReadLen))

\* one call of read_symbol()
ReadSymbol ==
    /\ Running
    /\ Becomes(read_symbol(P).p)
    /\ UNCHANGED <<fed, piece_in, token_out>>

NextRead == ReadSymbol

SpecRead == InitRead /\ [][NextRead]_vars

----------------------------------------------------------------------------
(* read_piece() on a file that is known from the start, one call at a time, with *)
(* the lexer parameters of one context                                          *)

\* the characters of the files: a letter, the quote, the comment sign, a delimiter,
\* a blank and the newline
LexAlphabet == {<<"a">>, <<"\"">>, <<"/">>, <<",">>, <<" ">>, <<"\n">>}

\* one context for each combination of lexer parameters that the classes supply
LexContexts ==
    {RootContext, SkipSpacesContext(None, TRUE), ExpectedFlowOperatorContext,
     SelfSufficientFlowOperatorContext(None), MLogContext}

InitPiece ==
    /\ fed \in FilesOf(LexAlphabet, MaxLexLen)
    /\ input = Concat(fed) /\ eof = TRUE
    /\ pos = 0 /\ stack \in {<<context>> : context \in LexContexts}
    /\ root = Root(1, 1, <<>>)
    /\ line_start = 1 /\ symbol_start = 0 /\ line_end = 1 /\ symbol_end = 0
    /\ inc_line = FALSE
    /\ status = "running" /\ diagnostic = None /\ exit_status = -1 /\ returned = None
    /\ piece_in = <<>> /\ token_out = None

\* the delimiter that stopped a piece
Delimiter(c) == [type |-> "Delimiter", delimiter |-> c]

\* one call of read_piece() with the parameters of the context on the stack, until
\* the end of the file has been given as the delimiter
ReadPiece ==
    /\ Running
    /\ token_out # Delimiter(EOF)
    /\ LET r == NextPiece(P)
       IN  /\ Becomes(IF Raised(r.p) THEN Abort(r.p) ELSE r.p)
           /\ piece_in' = r.piece
           /\ token_out' = Delimiter(r.delimiter)
    /\ UNCHANGED fed

NextPiecewise == ReadPiece

SpecPiece == InitPiece /\ [][NextPiecewise]_vars

----------------------------------------------------------------------------
(* run() on a file of whole lines that is known from the start, one iteration *)
(* of its loop at a time                                                      *)

\* the header and the end-word of two kinds of simple blocks, two statements and
\* the blank line
SimpleBlockLines(k1, k2) ==
    {Line(Flow(k1, <<>>)), Line(Flow(k2, <<>>)),
     Line(Flow(<<"e", "n", "d">> \o k1, <<>>)), Line(Flow(<<"e", "n", "d">> \o k2, <<>>)),
     Line(<<"a">>), Line(<<"1">>), Line(<<>>)}

InitLines ==
    StartOn(FilesOf(SimpleBlockLines(<<"p", "r", "o", "g">>, <<"d", "e", "f">>),
                    MaxBlockLines)
            \cup FilesOf(SimpleBlockLines(<<"i", "n", "i", "t">>, <<"l", "i", "n", "k">>),
                         MaxBlockLines))

\* one iteration of the loop of run()
Iterate ==
    /\ Running
    /\ Becomes(Iteration(P))
    /\ UNCHANGED <<fed, piece_in, token_out>>

NextLines == Iterate

SpecLines == InitLines /\ [][NextLines]_vars

\* the lines of an if block and of a loop block, and a statement
BranchLines ==
    {Line(Flow(<<"i", "f">>, <<" ", "a">>)), Line(Flow(<<"e", "l", "s", "e">>, <<>>)),
     Line(Flow(<<"e", "n", "d", "i", "f">>, <<>>)),
     Line(Flow(<<"l", "o", "o", "p">>, <<" ", "1">>)),
     Line(Flow(<<"a", "f", "t", "e", "r">>, <<>>)),
     Line(Flow(<<"e", "n", "d", "l", "o", "o", "p">>, <<>>)),
     Line(<<"a">>)}

InitBranches == StartOn(FilesOf(BranchLines, MaxBranchLines))

SpecBranches == InitBranches /\ [][NextLines]_vars

----------------------------------------------------------------------------
(* run() on a file of flow operators that is known from the start, one iteration *)
(* of its loop at a time                                                         *)

\* every keyword after its `#`, a word that is no keyword, the `#` on its own, and
\* what may follow the word: a blank, a line end, a comma and a token
DispatchFragments ==
    {Flow(k, <<>>) :
        k \in DOMAIN self_sufficient_operators \cup DOMAIN expression_required_operators
              \cup DOMAIN expression_allowed_operators \cup DOMAIN simple_block_operators
              \cup DOMAIN block_end_operators \cup DOMAIN block_with_expression_operators
              \cup DOMAIN body_switch_operators \cup DOMAIN function_operators
              \cup DOMAIN raw_func_operators \cup DOMAIN mlog_operators}
    \cup {Flow(<<"x">>, <<>>), Flow(<<>>, <<>>), <<" ">>, <<"\n">>, <<",">>, <<"a">>}

InitDispatch == StartOn(FilesOf(DispatchFragments, MaxDispatchFrags))

SpecDispatch == InitDispatch /\ [][NextLines]_vars

\* the header line of a block of every kind and the lines of the two switch words
SwitchLines ==
    {Line(Flow(<<"i", "f">>, <<" ", "a">>)), Line(Flow(<<"l", "o", "o", "p">>, <<" ", "1">>)),
     Line(Flow(<<"p", "r", "o", "g">>, <<>>)),
     Line(Flow(<<"f", "u", "n", "c">>, <<" ", "f", "(", "a", ")">>)),
     Line(Flow(<<"m", "l", "o", "g">>, <<>>)),
     Line(Flow(<<"e", "l", "s", "e">>, <<>>)), Line(Flow(<<"a", "f", "t", "e", "r">>, <<>>))}

InitSwitch == StartOn(FilesOf(SwitchLines, MaxSwitchLines))

SpecSwitch == InitSwitch /\ [][NextLines]_vars

----------------------------------------------------------------------------
(* Properties *)

\* only whitespace and line ends
AllWhite(s) == \A i \in 1..Len(s) : s[i] \in whitespace_set \cup {"\n"}

\* C10: once the parse of an empty file, or of a file of whitespace and blank
\* lines only, has ended, it has returned Root(body=[]) at (1, 1) and the context
\* stack is empty.
C10_BlankFile ==
    (status # "running" /\ AllWhite(input))
        => (status = "returned" /\ returned = Root(1, 1, <<>>) /\ stack = <<>>)

\* a file of blanks and blank lines has been parsed
C10_Witness ==
    /\ status = "returned" /\ AllWhite(input) /\ Len(input) >= 3
    /\ \E i, j \in 1..Len(input) : input[i] = " " /\ input[j] = "\n"

\* C9 as the code has it: on a parse error the diagnostic is written and the
\* process exits with status 0.
C9_ErrorExitsWithZero ==
    status = "error"
        => (diagnostic # None /\ diagnostic.kind \in ParseErrorKinds /\ exit_status = 0)

\* C9 as stated: on a parse error the diagnostic is written and the exit status
\* is different from 0.
C9_ErrorExitsNonZero == status = "error" => (diagnostic # None /\ exit_status # 0)

\* a parse has ended with a diagnostic
C9_Witness ==
    status = "error" /\ diagnostic # None /\ diagnostic.kind = "MProcStructureError"

\* C8: once a parse error has been reported nothing changes any more (no piece
\* is read, no hook touches the stack or the tree), and the step that reports it
\* returns no tree.
C8_NoRecovery ==
    [][/\ (diagnostic # None /\ diagnostic.kind \in ParseErrorKinds) => UNCHANGED vars
       /\ (diagnostic' # None /\ diagnostic'.kind \in ParseErrorKinds)
            => (status' = "error" /\ returned' = None)]_vars

\* a parse error after a statement was saved, with input left unread
C8_Witness ==
    /\ status = "error" /\ returned = None
    /\ root.body # <<>> /\ pos < Len(input)

\* C7: for V in {0, 1, 255, 4095} the decimal, the 0x and the 0b piece of V are
\* each classified as the NumericLiteral of the integer V.
C7_LiteralRoundTrip ==
    \A v \in LiteralValues :
        (piece_in \in Forms(v) /\ token_out # None)
            => token_out = NumericLiteral(line_start, symbol_start, IntValue(v))

\* the binary form of 4095 has been classified
C7_Witness == piece_in = Binary(4095) /\ token_out # None /\ token_out.type = "NumericLiteral"

\* the frames of the open blocks
BlockContextKinds ==
    {"SimpleBlockFlowOperatorContext", "MLogBlockFlowOperatorContext",
     "BlockWithExpressionFlowOperatorContext", "FunctionFlowOperatorContext",
     "RawFunctionFlowOperatorContext"}

BlockTypes == {"Def", "Init", "Prog", "Link", "If", "Loop", "Func", "Enum", "RawFunc", "MLog"}

OpenFrames(s) == SelectSeq(s, LAMBDA frame : frame.kind \in BlockContextKinds)

\* the kinds of the open blocks, the innermost last
OpenBlocks(s) == [i \in 1..Len(OpenFrames(s)) |-> OpenFrames(s)[i].content.type]

EndWordOf(type) == CHOOSE k \in DOMAIN block_end_operators : block_end_operators[k] = type

\* The end-word this iteration of run() handles, <<>> when it handles none: a
\* keyword of block_end_operators that ends its line, read after the hash sign, or
\* the line end after an end-word that blanks followed.
ArrivingEndWord ==
    IF ~Running \/ NeedMore THEN <<>>
    ELSE Let(NextPiece(P), LAMBDA r :
           IF Raised(r.p) THEN <<>>
           ELSE IF /\ Top(P).kind \in {"ExpectedFlowOperatorContext", "BlockEndOnlyContext"}
                   /\ r.piece \in DOMAIN block_end_operators
                   /\ r.delimiter \in {"\n", EOF}
           THEN r.piece
           ELSE IF Top(P).kind = "BlockEndFlowOperatorContext" /\ r.piece = <<>>
           THEN Top(P).name
           ELSE <<>>)

\* the end-word does not name the innermost open block, or no block is open
Mismatched(word) ==
    \/ OpenBlocks(stack) = <<>>
    \/ Last(OpenBlocks(stack)) # block_end_operators[word]

\* C2: an end-word #endY that arrives while the innermost open block is of
\* another kind, or while no block is open, is reported as the unexpected symbol
\* #endY, and no block is closed: the open blocks and the tree stay as they are.
C2_MismatchedEndWord ==
    [][(ArrivingEndWord # <<>> /\ Mismatched(ArrivingEndWord))
          => /\ status' = "error"
             /\ diagnostic'.kind = "MProcParseError"
             /\ diagnostic'.arg = <<"#">> \o ArrivingEndWord
             /\ OpenFrames(stack') = OpenFrames(stack)
             /\ root' = root]_vars

\* #endloop was reported while an If block was the innermost open block
C2_Witness ==
    /\ status = "error" /\ diagnostic.kind = "MProcParseError"
    /\ diagnostic.arg = <<"#">> \o EndWordOf("Loop")
    /\ OpenBlocks(stack) # <<>> /\ Last(OpenBlocks(stack)) = "If"

\* the number of block nodes of a finished node, itself included
RECURSIVE BlocksIn(_), BlocksInBody(_)
BlocksInBody(body) ==
    IF body = <<>> THEN 0 ELSE BlocksIn(Head(body)) + BlocksInBody(Tail(body))
BlocksIn(node) ==
    CASE node.type \in {"Def", "Init", "Prog", "Link", "Func", "Enum"}
           -> 1 + BlocksInBody(node.body)
      [] node.type \in {"If", "Loop"}
           -> 1 + BlocksInBody(node.body) + BlocksInBody(node.body2)
      [] node.type \in {"RawFunc", "MLog"} -> 1
      [] node.type = "Root" -> BlocksInBody(node.body)
      [] OTHER -> 0

\* the block nodes the end of a block has finalised: those of the tree and of the
\* bodies of the open blocks
RECURSIVE ClosedIn(_)
ClosedIn(frames) ==
    IF frames = <<>> THEN 0
    ELSE BlocksIn(Head(frames).content) - 1 + ClosedIn(Tail(frames))

ClosedBlocks(tree, s) == BlocksIn(tree) + ClosedIn(OpenFrames(s))

\* C3: in a parse that goes on or returns, a step opens one block, or closes the
\* innermost open block, or leaves the open blocks alone; a block node is
\* finalised only by the step that closes its block, and that step handles the
\* end-word of the kind of the block.  A returned tree has no block left open.
C3_BalancedBlocks ==
    [][status' \in {"running", "returned"}
          => LET open == OpenBlocks(stack)
                 after == OpenBlocks(stack')
                 closes == open # <<>> /\ after = Front(open)
             IN  /\ \/ after = open
                    \/ Front(after) = open /\ after # <<>>
                    \/ closes
                 /\ closes => /\ ArrivingEndWord # <<>>
                              /\ block_end_operators[ArrivingEndWord] = Last(open)
                 /\ ClosedBlocks(root', stack')
                      = ClosedBlocks(root, stack) + (IF closes THEN 1 ELSE 0)
                 /\ status' = "returned" => after = <<>>]_vars

\* a tree with a block closed inside a block has been returned
C3_Witness ==
    /\ status = "returned"
    /\ \E i \in 1..Len(returned.body) :
          /\ returned.body[i].type \in BlockTypes \ {"RawFunc", "MLog"}
          /\ \E j \in 1..Len(returned.body[i].body) :
                returned.body[i].body[j].type \in BlockTypes

\* what closes a frame: the end-word line of a block, the parenthesis of a call
Closer(frame) ==
    IF frame.kind \in BlockContextKinds
    THEN <<"\n", "#">> \o EndWordOf(frame.content.type)
    ELSE IF frame.kind = "CallContext" THEN <<")">>
    ELSE <<>>

\* what closes everything the stack holds open, the innermost first
RECURSIVE Closers(_)
Closers(s) == IF s = <<>> THEN <<>> ELSE Closer(Last(s)) \o Closers(Front(s))

\* the characters of the file the lexer has not given back in a piece yet
Unread == Drop(input, pos)

\* the piece being read is a string literal whose closing quote is not there yet
InOpenString ==
    LET black == {i \in 1..Len(Unread) : Unread[i] \notin whitespace_set \cup {"\n"}}
    IN  /\ black # {}
        /\ LET k == CHOOSE i \in black : \A j \in black : i <= j
           IN  /\ Unread[k] = "\""
               /\ \A i \in (k + 1)..Len(Unread) : Unread[i] \notin {"\"", "\n"}

\* the known part of the file ends inside a block, a call or a string literal,
\* and the text that closes them makes it a file that parses
TruncatedInsideOpen ==
    /\ NeedMore /\ ~eof
    /\ InOpenString \/ Closers(stack) # <<>>
    /\ parse(input \o (IF InOpenString THEN <<"\"">> ELSE <<>>) \o Closers(stack)).status
         = "returned"

\* C1 as stated: a file that parses, cut inside an open block, an open call or an
\* open string literal, ends the parse with MProcEOFError.
C1_EOFSafety ==
    TruncatedInsideOpen
        => Let(Run([P EXCEPT !.eof = TRUE]), LAMBDA r :
                 r.status = "error" /\ r.diagnostic.kind = "MProcEOFError")

\* the file was cut after the header line of an If block and the parse ended with
\* another error than MProcEOFError
C1_Witness ==
    /\ status = "error" /\ diagnostic.kind = "MProcTokenExpectedError"
    /\ OpenBlocks(stack) # <<>> /\ Last(OpenBlocks(stack)) = "If"
    /\ pos = Len(input) /\ input # <<>> /\ Last(input) = "\n"

\* a sequence of nodes without their positions
RECURSIVE Shape(_)
Shape(n) ==
    LET All(s) == [i \in 1..Len(s) |-> Shape(s[i])]
        m == IF n.type = "None" THEN n ELSE [n EXCEPT !.line = 0, !.symbol = 0]
    IN  CASE n.type = "Assignment" -> [m EXCEPT !.lhs = Shape(n.lhs), !.rhs = Shape(n.rhs)]
          [] n.type = "List" -> [m EXCEPT !.expressions = All(n.expressions)]
          [] n.type = "Call" ->
               [m EXCEPT !.called = Shape(n.called), !.arguments = Shape(n.arguments)]
          [] n.type = "FunctionDefinition" ->
               [m EXCEPT !.call = Shape(n.call), !.returns = Shape(n.returns)]
          [] n.type \in {"Import", "Wait", "Using", "Var", "Return"} ->
               [m EXCEPT !.expression = Shape(n.expression)]
          [] n.type \in {"Root", "Def", "Init", "Prog", "Link"} ->
               [m EXCEPT !.body = All(n.body)]
          [] n.type \in {"If", "Loop"} ->
               [m EXCEPT !.expression = Shape(n.expression), !.body = All(n.body),
                         !.body2 = All(n.body2)]
          [] n.type \in {"Func", "Enum"} ->
               [m EXCEPT !.definition = Shape(n.definition), !.body = All(n.body)]
          [] n.type = "RawFunc" -> [m EXCEPT !.definition = Shape(n.definition)]
          [] OTHER -> m

\* the file without the characters i..j
Without(i, j) == SubSeq(input, 1, i - 1) \o Drop(input, j)

\* the first line end after position i, 0 when there is none
LineEndAfter(i) ==
    LET ends == {j \in (i + 1)..Len(input) : input[j] = "\n"}
    IN  IF ends = {} THEN 0 ELSE CHOOSE j \in ends : \A k \in ends : j <= k

\* position i is inside a string literal
InString(i) == Cardinality({j \in 1..(i - 1) : input[j] = "\""}) % 2 = 1

\* a slash outside a string literal with a line end after it: the text from the
\* slash to the line end is a comment put before that line end
CommentSites ==
    {i \in 1..Len(input) : input[i] = "/" /\ ~InString(i) /\ LineEndAfter(i) # 0}

\* the parse of this file gives what the parse of the other file gave
SameTree(r) == status = "returned" /\ Shape(returned) = Shape(r.returned)

\* C4 as stated: if the file without one of its comments parses to a tree, the
\* file parses to the same tree up to positions.
C4_CommentTransparency ==
    status # "running"
        => \A i \in CommentSites :
              Let(parse(Without(i, LineEndAfter(i) - 1)), LAMBDA r :
                    r.status = "returned" => SameTree(r))

\* a file with a comment right after a string literal has been refused
C4_Witness ==
    /\ input = <<"\"", "s", "\"", "/", "c", "\n">>
    /\ status = "error" /\ diagnostic.kind = "MProcInvalidStringLiteral"

\* the number of parentheses open before position i
Depth(i) ==
    Cardinality({j \in 1..(i - 1) : input[j] = "("})
    - Cardinality({j \in 1..(i - 1) : input[j] = ")"})

\* a space or a line end inside a call, next to a comma, a parenthesis or the
\* equals sign of a named argument, in a file without comments and string literals
BlankSites ==
    {i \in 1..Len(input) :
        /\ \A j \in 1..Len(input) : input[j] \notin {"/", "\""}
        /\ input[i] \in {" ", "\n"}
        /\ Depth(i) > 0
        /\ \/ i > 1 /\ input[i - 1] \in {"(", ",", "="}
           \/ i < Len(input) /\ input[i + 1] \in {")", ",", "="}}

\* C5 as stated: if the file without one of the blanks inside its calls parses to
\* a tree, the file parses to the same tree up to positions.
C5_WhitespaceTolerance ==
    status # "running"
        => \A i \in BlankSites :
              Let(parse(Without(i, i)), LAMBDA r : r.status = "returned" => SameTree(r))

\* a call with a blank between the value of a named argument and the closing
\* parenthesis has been refused
C5_Witness ==
    /\ input = <<"f", "(", "k", "=", "a", " ", ")">>
    /\ status = "error" /\ diagnostic.kind = "MProcParseError"
    /\ diagnostic.arg = <<")">>

\* the nodes of a tree, depth-first in the order of the text they stand for
RECURSIVE NodesOf(_), NodesOfAll(_)
NodesOfAll(s) == IF s = <<>> THEN <<>> ELSE NodesOf(Head(s)) \o NodesOfAll(Tail(s))
NodesOf(n) ==
    CASE n.type = "None" -> <<>>
      [] n.type = "Assignment" -> <<n>> \o NodesOf(n.lhs) \o NodesOf(n.rhs)
      [] n.type = "List" -> <<n>> \o NodesOfAll(n.expressions)
      [] n.type = "Call" -> <<n>> \o NodesOf(n.called) \o NodesOf(n.arguments)
      [] n.type = "FunctionDefinition" -> <<n>> \o NodesOf(n.call) \o NodesOf(n.returns)
      [] n.type \in {"Import", "Wait", "Using", "Var", "Return"}
           -> <<n>> \o NodesOf(n.expression)
      [] n.type \in {"Root", "Def", "Init", "Prog", "Link"} -> <<n>> \o NodesOfAll(n.body)
      [] n.type \in {"If", "Loop"}
           -> <<n>> \o NodesOf(n.expression) \o NodesOfAll(n.body) \o NodesOfAll(n.body2)
      [] n.type \in {"Func", "Enum"} -> <<n>> \o NodesOf(n.definition) \o NodesOfAll(n.body)
      [] n.type = "RawFunc" -> <<n>> \o NodesOf(n.definition)
      [] OTHER -> <<n>>

NotAfter(a, b) == a.line < b.line \/ (a.line = b.line /\ a.symbol <= b.symbol)

SamePosition(a, b) == a.line = b.line /\ a.symbol = b.symbol

\* the index in the file of the 1-based column of the 1-based line, 0 when the
\* file has no such place
At(line, symbol) ==
    LET ends == {i \in 1..Len(input) : input[i] = "\n"}
        before == IF line = 1 THEN 0
                  ELSE CHOOSE i \in ends : Cardinality({j \in ends : j <= i}) = line - 1
    IN  IF line < 1 \/ line > Cardinality(ends) + 1 \/ symbol < 1 THEN 0
        ELSE IF before + symbol > Len(input) THEN 0
        ELSE IF \E j \in (before + 1)..(before + symbol - 1) : input[j] = "\n" THEN 0
        ELSE before + symbol

\* the text stands in the file at the position of the node, at the start of a piece
TextAt(n, text) ==
    LET k == At(n.line, n.symbol)
    IN  /\ k # 0
        /\ k + Len(text) - 1 <= Len(input)
        /\ SubSeq(input, k, k + Len(text) - 1) = text
        /\ \/ k = 1
           \/ input[k - 1] \in ContextDelimiters
           \/ text = <<"#">>
           \/ k > 2 /\ input[k - 2] = "-" /\ input[k - 1] = ">"

\* the piece that starts at index k of the file
PieceFrom(k) ==
    LET stops == {j \in k..Len(input) : input[j] \in ContextDelimiters \cup {"/"}}
    IN  SubSeq(input, k,
               IF stops = {} THEN Len(input)
               ELSE (CHOOSE j \in stops : \A i \in stops : j <= i) - 1)

FlowTypes ==
    BlockTypes \cup {"Break", "Continue", "End", "Stop", "Import", "Wait", "Using",
                     "Var", "Return"}

\* the position of the node is where its construct begins in the file
BeginsAtPosition(n) ==
    CASE n.type = "Root" -> n.line = 1 /\ n.symbol = 1
      [] n.type = "Token" -> TextAt(n, n.name)
      [] n.type = "StringLiteral" -> TextAt(n, <<"\"">> \o n.value)
      [] n.type = "NumericLiteral" ->
           /\ At(n.line, n.symbol) # 0
           /\ TextAt(n, PieceFrom(At(n.line, n.symbol)))
           /\ parse_token(P, PieceFrom(At(n.line, n.symbol))).value = n.value
      [] n.type \in FlowTypes -> TextAt(n, <<"#">>)
      [] n.type = "Assignment" -> SamePosition(n, n.lhs)
      [] n.type = "List" -> n.expressions # <<>> /\ SamePosition(n, n.expressions[1])
      [] n.type = "Call" -> SamePosition(n, n.called)
      [] n.type = "FunctionDefinition" -> SamePosition(n, n.call)

\* C6: in a returned tree the positions of the nodes, taken depth-first in the
\* order of the text, never decrease, and every node stands at the line and
\* column where its construct begins: the hash sign of a flow operator, the lhs
\* of an Assignment, the first element of a List, the callee of a Call.
C6_Positions ==
    status = "returned"
        => LET nodes == NodesOf(returned)
           IN  /\ \A i \in 1..(Len(nodes) - 1) : NotAfter(nodes[i], nodes[i + 1])
               /\ \A i \in 1..Len(nodes) : BeginsAtPosition(nodes[i])

\* a tree with an assignment of a call on its second line has been returned
C6_Witness ==
    /\ status = "returned"
    /\ \E i \in 1..Len(returned.body) :
          /\ returned.body[i].type = "Assignment"
          /\ returned.body[i].line = 2
          /\ returned.body[i].rhs.type = "Call"

\* the texts between the occurrences of the character c in s
RECURSIVE SplitOn(_, _)
SplitOn(s, c) ==
    LET at == {i \in 1..Len(s) : s[i] = c}
        first == CHOOSE i \in at : \A j \in at : i <= j
    IN  IF at = {} THEN <<s>>
        ELSE <<SubSeq(s, 1, first - 1)>> \o SplitOn(Drop(s, first), c)

\* s without the spaces and tabs around it
RECURSIVE Strip(_)
Strip(s) ==
    IF s # <<>> /\ Head(s) \in whitespace_set THEN Strip(Tail(s))
    ELSE IF s # <<>> /\ Last(s) \in whitespace_set THEN Strip(Front(s))
    ELSE s

\* the text of one operand: a word, a number or a string literal on one line
IsOperand(text) ==
    /\ text # <<>>
    /\ \/ \A i \in 1..Len(text) : text[i] \notin ContextDelimiters \cup {"/", "\""}
       \/ /\ Len(text) >= 2 /\ Head(text) = "\"" /\ Last(text) = "\""
          /\ \A i \in 2..(Len(text) - 1) : text[i] \notin {"\"", "\n"}

\* the items of a comma list, without the blanks around them
Items(text) == LET parts == SplitOn(text, ",") IN [i \in 1..Len(parts) |-> Strip(parts[i])]

AllOperands(items) == \A i \in 1..Len(items) : IsOperand(items[i])

\* the node of an operand, without its position
Operand(text) == Shape(parse_token(P, text))

\* what a comma list of operands stands for: the operand itself when it is alone,
\* the List of the operands in the order of the text otherwise
ListOf(items) ==
    IF Len(items) = 1 THEN Operand(items[1])
    ELSE List(0, 0, [i \in 1..Len(items) |-> Operand(items[i])])

\* the file without the line end that closes it
Unterminated(text) == IF text # <<>> /\ Last(text) = "\n" THEN Front(text) ELSE text

\* the file is one statement `l1, ..., lm = e1, ..., en` of operands, closed by a
\* line end or by the end of the file, with a list on at least one side
IsListAssignment(text) ==
    LET sides == SplitOn(Unterminated(text), "=")
    IN  /\ Len(sides) = 2
        /\ AllOperands(Items(sides[1])) /\ AllOperands(Items(sides[2]))
        /\ Len(Items(sides[1])) > 1 \/ Len(Items(sides[2])) > 1

ListAssignment(text) ==
    LET sides == SplitOn(Unterminated(text), "=")
    IN  Assignment(0, 0, ListOf(Items(sides[1])), ListOf(Items(sides[2])))

\* C11: the parse of a file that is one statement `lhs = e1, ..., en`, closed by a
\* line end or the end of the file, returns the single statement
\* Assignment(lhs, List[e1..en]) with the elements in the order of the text; when
\* a comma list stands before the equals sign, that list is the lhs of the
\* Assignment and is not delivered as a statement of its own.
C11_AssignmentLists ==
    (status # "running" /\ IsListAssignment(input))
        => /\ status = "returned"
           /\ Shape(returned).body = <<ListAssignment(input)>>

\* the statement `a = 1, a` has been parsed to an Assignment of a List of two
C11_Witness ==
    /\ status = "returned" /\ IsListAssignment(input)
    /\ Len(returned.body) = 1
    /\ returned.body[1].rhs.type = "List"
    /\ Len(returned.body[1].rhs.expressions) = 2
    /\ returned.body[1].rhs.expressions[1].type = "NumericLiteral"
    /\ returned.body[1].rhs.expressions[2].type = "Token"

\* the first index from i on that holds no blank and no line end
RECURSIVE SkipBlanks(_, _)
SkipBlanks(text, i) ==
    IF i <= Len(text) /\ text[i] \in whitespace_set \cup {"\n"} THEN SkipBlanks(text, i + 1)
    ELSE i

\* the first index from i on that holds no character of a word
RECURSIVE WordEnd(_, _)
WordEnd(text, i) ==
    IF i <= Len(text) /\ text[i] \notin ContextDelimiters \cup {"/", "\""}
    THEN WordEnd(text, i + 1)
    ELSE i

NoExpression == [ok |-> FALSE, node |-> None, next |-> 0]

\* the arguments field of a call with these arguments
ArgumentsOf(items) == IF Len(items) = 1 THEN items[1] ELSE List(0, 0, items)

\* The call expressions of the language, read from index i of the text: a word,
\* then any number of argument lists `( e1, ..., en )` of call expressions with
\* n > 0, blanks and line ends allowed around every argument.  [ok, node, next]:
\* the tree the expression stands for, without positions, and the index after it.
RECURSIVE CallExpression(_, _), CallSuffix(_, _, _), CallArguments(_, _, _)
CallExpression(text, i) ==
    LET j == WordEnd(text, i)
    IN  IF j = i THEN NoExpression
        ELSE CallSuffix(text, j, Shape(parse_token(P, SubSeq(text, i, j - 1))))

CallSuffix(text, j, node) ==
    IF j <= Len(text) /\ text[j] = "("
    THEN LET a == CallArguments(text, j + 1, <<>>)
         IN  IF a.ok THEN CallSuffix(text, a.next, Call(0, 0, node, ArgumentsOf(a.node)))
             ELSE NoExpression
    ELSE [ok |-> TRUE, node |-> node, next |-> j]

CallArguments(text, i, items) ==
    LET e == CallExpression(text, SkipBlanks(text, i))
        m == SkipBlanks(text, e.next)
    IN  IF ~e.ok \/ m > Len(text) THEN NoExpression
        ELSE IF text[m] = "," THEN CallArguments(text, m + 1, Append(items, e.node))
        ELSE IF text[m] = ")"
        THEN [ok |-> TRUE, node |-> Append(items, e.node), next |-> m + 1]
        ELSE NoExpression

\* the file is one call, closed by a line end or by the end of the file
IsCallStatement(text) ==
    LET e == CallExpression(Unterminated(text), 1)
    IN  e.ok /\ e.next = Len(Unterminated(text)) + 1 /\ e.node.type = "Call"

CallTree(text) == CallExpression(Unterminated(text), 1).node

\* C12 as stated: the parse of a file that is one call `callee(args)` returns the
\* single statement Call(callee, X), X being the argument itself when there is
\* one and the List of the arguments in the order of the text when there are
\* several; the call ends at the parenthesis that matches its own, the inner
\* calls first, and a line end between the parentheses does not end it.
C12_CallShape ==
    (status # "running" /\ IsCallStatement(input))
        => /\ status = "returned"
           /\ Shape(returned).body = <<CallTree(input)>>

\* a call with three arguments and a line end after the second one has been
\* parsed to a call whose arguments hold a List inside a List
C12_Witness ==
    /\ status = "returned" /\ IsCallStatement(input)
    /\ Len(returned.body) = 1 /\ returned.body[1].type = "Call"
    /\ returned.body[1].arguments.type = "List"
    /\ returned.body[1].arguments.expressions[1].type = "List"
    /\ CallTree(input).arguments.expressions[1].type = "Token"

\* the lines of a text: the texts between its line ends
Lines(text) == SplitOn(text, "\n")

SwitchWordOf(type) ==
    CHOOSE k \in DOMAIN body_switch_operators : body_switch_operators[k] = type

\* the line is the hash sign and the keyword, alone on the line
IsWordLine(line, words) == line # <<>> /\ Head(line) = "#" /\ Tail(line) \in words

\* the line is the hash sign, a keyword of the table, one blank and an operand
IsHeaderLine(line, table) ==
    \E k \in DOMAIN table :
        /\ StartsWith(line, Flow(k, <<" ">>))
        /\ IsOperand(Drop(line, Len(k) + 2))

HeaderKeyword(line, table) ==
    CHOOSE k \in DOMAIN table : StartsWith(line, Flow(k, <<" ">>))

NoBody == [ok |-> FALSE, body |-> <<>>, stop |-> <<>>, next |-> 0]

\* The block structure of a file of lines, read from line i on: operands alone
\* on their line, blank lines, simple blocks from `#word` to `#endword` and
\* two-branch blocks from `#word operand` to `#endword` with at most one switch
\* word line between them.  [ok, body, stop, next]: the statements up to the
\* first end-word or switch word line, without positions, that word (<<>> at the
\* end of the file) and the index of the line after it.
RECURSIVE BodyOfLines(_, _, _)
BodyOfLines(lines, i, acc) ==
    IF i > Len(lines) THEN [ok |-> TRUE, body |-> acc, stop |-> <<>>, next |-> i]
    ELSE LET line == lines[i]
         IN  IF line = <<>> THEN BodyOfLines(lines, i + 1, acc)
             ELSE IF IsOperand(line)
             THEN BodyOfLines(lines, i + 1, Append(acc, Operand(line)))
             ELSE IF IsWordLine(line, DOMAIN block_end_operators
                                      \cup DOMAIN body_switch_operators)
             THEN [ok |-> TRUE, body |-> acc, stop |-> Tail(line), next |-> i + 1]
             ELSE IF IsWordLine(line, DOMAIN simple_block_operators)
             THEN LET type == simple_block_operators[Tail(line)]
                      b == BodyOfLines(lines, i + 1, <<>>)
                  IN  IF b.ok /\ b.stop = EndWordOf(type)
                      THEN BodyOfLines(lines, b.next,
                                       Append(acc, BodyNode(type, 0, 0, b.body)))
                      ELSE NoBody
             ELSE IF IsHeaderLine(line, block_with_expression_operators)
             THEN LET k == HeaderKeyword(line, block_with_expression_operators)
                      type == block_with_expression_operators[k]
                      expression == Operand(Drop(line, Len(k) + 2))
                      b == BodyOfLines(lines, i + 1, <<>>)
                      b2 == BodyOfLines(lines, b.next, <<>>)
                  IN  IF b.ok /\ b.stop = EndWordOf(type)
                      THEN BodyOfLines(lines, b.next,
                               Append(acc, TwoBodyNode(type, 0, 0, expression, b.body, <<>>)))
                      ELSE IF b.ok /\ b.stop = SwitchWordOf(type)
                              /\ b2.ok /\ b2.stop = EndWordOf(type)
                      THEN BodyOfLines(lines, b2.next,
                               Append(acc, TwoBodyNode(type, 0, 0, expression, b.body,
                                                       b2.body)))
                      ELSE NoBody
             ELSE NoBody

\* the file is a sequence of statements and closed blocks
FileOfLines(text) == BodyOfLines(Lines(text), 1, <<>>)

IsFileOfLines(text) == FileOfLines(text).ok /\ FileOfLines(text).stop = <<>>

\* the block types of the nodes of a tree
TypesIn(tree) == {NodesOf(tree)[i].type : i \in 1..Len(NodesOf(tree))}

SimpleBlockTypes == {"Def", "Init", "Prog", "Link"}

\* the frames of the stack that are open simple blocks
SimpleBlockFrames ==
    {k \in 1..Len(stack) : stack[k].kind = "SimpleBlockFlowOperatorContext"}

\* the frame is the context of the block of this node
IsFrameOf(frame, node) ==
    /\ HasContent(frame) /\ frame.content.type = node.type
    /\ frame.content.line = node.line /\ frame.content.symbol = node.symbol

\* the body a statement of frame e is appended to
CurrentBody(s, r, e) ==
    IF e = 1 THEN r.body
    ELSE IF HasBody2(s[e]) /\ s[e].body2 THEN s[e].content.body2
    ELSE s[e].content.body

\* b is a, or a with one node appended that stands after the nodes of a
GrowsByOne(a, b) ==
    \/ b = a
    \/ /\ Len(b) = Len(a) + 1 /\ SubSeq(b, 1, Len(a)) = a
       /\ a # <<>> => NotAfter(Last(a), Last(b)) /\ ~SamePosition(Last(a), Last(b))

\* the tree returned for a file of statements and simple blocks is the tree of
\* its lines
C13_BlockTree ==
    (/\ status # "running" /\ IsFileOfLines(input)
     /\ TypesIn(Root(0, 0, FileOfLines(input).body)) \cap SimpleBlockTypes # {})
        => /\ status = "returned"
           /\ Shape(returned).body = FileOfLines(input).body

\* one iteration of run() while simple blocks are open: an open block keeps the
\* frames under it and the root as they are and gets at most one statement, at
\* the end of its body; a block that is closed is appended, with the body it had,
\* to the body of the block that encloses it
C13_BlockStep ==
    status' \in {"running", "returned"}
        => \A k \in SimpleBlockFrames :
              IF k <= Len(stack') /\ IsFrameOf(stack'[k], stack[k].content)
              THEN /\ root' = root
                   /\ \A j \in 1..(k - 1) : stack'[j] = stack[j]
                   /\ GrowsByOne(stack[k].content.body, stack'[k].content.body)
              ELSE /\ k - 2 = 1 \/ Len(stack') >= k - 2
                   /\ CurrentBody(stack', root', k - 2)
                        = Append(CurrentBody(stack, root, k - 2), stack[k].content)

\* C13: inside a def/init/prog/link block every statement completed between the
\* header line and the matching end-word is appended to the body of that block,
\* once and in the order of the text; nothing is appended to the enclosing body
\* while the block is open, and the end-word appends the block to the enclosing
\* body as one node.
C13_SimpleBlockBody == [](C13_BlockTree) /\ [][C13_BlockStep]_vars

\* a tree with a statement, then a simple block of two statements, has been
\* returned
C13_Witness ==
    /\ status = "returned" /\ IsFileOfLines(input)
    /\ Len(returned.body) = 2
    /\ returned.body[1].type = "Token"
    /\ returned.body[2].type \in SimpleBlockTypes
    /\ Len(returned.body[2].body) = 2
    /\ returned.body[2].body[1].type = "NumericLiteral"
    /\ returned.body[2].body[2].type = "Token"

\* the frames of the stack that are open if and loop blocks
BranchFrames ==
    {k \in 1..Len(stack) : stack[k].kind = "BlockWithExpressionFlowOperatorContext"}

\* the tree returned for a file of statements and if and loop blocks is the tree
\* of its lines: the statements before the switch word in body, the ones after it
\* in body2
C14_BranchTree ==
    (/\ status # "running" /\ IsFileOfLines(input)
     /\ TypesIn(Root(0, 0, FileOfLines(input).body)) \cap {"If", "Loop"} # {})
        => /\ status = "returned"
           /\ Shape(returned).body = FileOfLines(input).body

\* one iteration of run() while an if or loop block stays open: the frames under
\* it are as they were, its flag is never reset, and it gets at most one
\* statement, at the end of body while the flag is not set and at the end of
\* body2 once it is
C14_BranchStep ==
    status' \in {"running", "returned"}
        => \A k \in BranchFrames :
              (k <= Len(stack') /\ IsFrameOf(stack'[k], stack[k].content))
                  => /\ \A j \in 1..(k - 1) : stack'[j] = stack[j]
                     /\ stack[k].body2 => stack'[k].body2
                     /\ IF stack[k].body2
                        THEN /\ stack'[k].content.body = stack[k].content.body
                             /\ GrowsByOne(stack[k].content.body2,
                                           stack'[k].content.body2)
                        ELSE IF stack'[k].body2
                        THEN /\ stack'[k].content.body = stack[k].content.body
                             /\ stack'[k].content.body2 = <<>>
                        ELSE /\ stack'[k].content.body2 = <<>>
                             /\ GrowsByOne(stack[k].content.body, stack'[k].content.body)

\* C14: in an if or loop block the statements completed before the switch word
\* (#else, #after) are appended to body and the ones completed after it to body2,
\* each once and in the order of the text; without a switch word body2 stays
\* empty; a nested if or loop block fills its own body and body2 whatever the
\* flag of the block around it.
C14_TwoBranches == [](C14_BranchTree) /\ [][C14_BranchStep]_vars

\* inside an If block whose flag is set, a Loop block whose flag is not set has
\* got a statement in its body
C14_Witness ==
    /\ status = "running"
    /\ \E k \in BranchFrames, m \in BranchFrames :
          /\ k < m
          /\ stack[k].content.type = "If" /\ stack[k].body2
          /\ stack[k].content.body = <<>> /\ stack[k].content.body2 = <<>>
          /\ stack[m].content.type = "Loop" /\ ~stack[m].body2
          /\ Len(stack[m].content.body) = 1 /\ stack[m].content.body2 = <<>>

HeaderOperators == function_operators @@ raw_func_operators

\* the indexes of the text where an arrow begins
Arrows(text) == {i \in 1..(Len(text) - 1) : text[i] = "-" /\ text[i + 1] = ">"}

\* the text is one call expression
IsCall(text) ==
    LET e == CallExpression(text, 1)
    IN  e.ok /\ e.next = Len(text) + 1 /\ e.node.type = "Call"

\* the return expressions: a token or literal, a comma list of them, or a call
IsReturns(text) ==
    \/ AllOperands(Items(text))
    \/ IsCall(text)

Returns(text) ==
    IF AllOperands(Items(text)) THEN ListOf(Items(text)) ELSE CallExpression(text, 1).node

\* the definition a header text after the keyword stands for: the signature call
\* alone, or the signature call, the arrow and the return expression
IsDefinition(text) ==
    IF Arrows(text) = {} THEN IsCall(Strip(text))
    ELSE LET i == CHOOSE i \in Arrows(text) : \A j \in Arrows(text) : i <= j
         IN  /\ IsCall(Strip(SubSeq(text, 1, i - 1)))
             /\ IsReturns(Strip(Drop(text, i + 1)))

Definition(text) ==
    IF Arrows(text) = {} THEN CallExpression(Strip(text), 1).node
    ELSE LET i == CHOOSE i \in Arrows(text) : \A j \in Arrows(text) : i <= j
         IN  FunctionDefinition(0, 0, CallExpression(Strip(SubSeq(text, 1, i - 1)), 1).node,
                                Returns(Strip(Drop(text, i + 1))))

\* the file is the header line of a func, enum or rawfunc block and the line of
\* its end-word
IsFunctionFile(text) ==
    /\ Len(Lines(text)) = 3 /\ Lines(text)[3] = <<>>
    /\ \E k \in DOMAIN HeaderOperators :
          /\ StartsWith(Lines(text)[1], Flow(k, <<" ">>))
          /\ IsDefinition(Drop(Lines(text)[1], Len(k) + 2))
          /\ Lines(text)[2] = Flow(EndWordOf(HeaderOperators[k]), <<>>)

FunctionBlock(text) ==
    LET k == CHOOSE k \in DOMAIN HeaderOperators :
                 /\ StartsWith(Lines(text)[1], Flow(k, <<" ">>))
                 /\ Lines(text)[2] = Flow(EndWordOf(HeaderOperators[k]), <<>>)
    IN  DefinitionNode(HeaderOperators[k], 0, 0,
                       Definition(Drop(Lines(text)[1], Len(k) + 2)), <<>>)

\* C15 as stated: the parse of a func, enum or rawfunc block returns the block
\* with, as its definition, FunctionDefinition(call = signature, returns = return
\* expression) when the arrow and a return expression (a token, a comma list or a
\* call) follow the signature call, and the signature call itself when no arrow
\* follows it.
C15_FunctionHeader ==
    (status # "running" /\ IsFunctionFile(input))
        => /\ status = "returned"
           /\ Shape(returned).body = <<FunctionBlock(input)>>

\* the parse of a function block whose return expression is a call has ended with
\* a TypeError
C15_Witness ==
    /\ IsFunctionFile(input)
    /\ FunctionBlock(input).definition.type = "FunctionDefinition"
    /\ FunctionBlock(input).definition.returns.type = "Call"
    /\ status = "crash" /\ diagnostic.kind = "TypeError"


----------------------------------------------------------------------------
(* C16: the body of a raw block is the raw text, character for character *)

\* the position of the first character c of s at or after position i, 0 if none
FirstAt(s, c, i) ==
    LET at == {j \in i..Len(s) : s[j] = c}
    IN  IF at = {} THEN 0 ELSE CHOOSE j \in at : \A k \in at : j <= k

\* the header lines of the raw blocks and the node type and end-word line of each
RawBlocks ==
    {[header |-> Line(Flow(<<"m", "l", "o", "g">>, <<>>)), type |-> "MLog",
      end |-> Line(Flow(<<"e", "n", "d", "m", "l", "o", "g">>, <<>>))],
     [header |-> Line(Flow(<<"r", "a", "w", "f", "u", "n", "c">>,
                           <<" ", "f", "(", "a", ")">>)), type |-> "RawFunc",
      end |-> Line(Flow(<<"e", "n", "d", "r", "a", "w", "f", "u", "n", "c">>, <<>>))]}

\* text is one raw block: the header line, a raw text without `#`, the end-word line
IsRawBlock(text, block) ==
    /\ Len(text) >= Len(block.header) + Len(block.end)
    /\ SubSeq(text, 1, Len(block.header)) = block.header
    /\ FirstAt(text, "#", Len(block.header) + 1) = Len(text) - Len(block.end) + 1
    /\ Drop(text, Len(text) - Len(block.end)) = block.end

\* the characters between the newline that ends the header line and the closing `#`
RawText(text, block) ==
    SubSeq(text, Len(block.header) + 1, Len(text) - Len(block.end))

\* C16: when a file that is one mlog or rawfunc block has been parsed, the body of the
\* node is exactly the text between the newline of the header line and the `#` of the
\* end-word, `/`, `"` and blanks included.
C16_RawBodyVerbatim ==
    \A block \in RawBlocks :
        (status = "returned" /\ IsRawBlock(input, block)) =>
            /\ Len(returned.body) = 1
            /\ returned.body[1].type = block.type
            /\ returned.body[1].body = RawText(input, block)

\* the file `#mlog`, `a/`, `#endmlog` has been parsed to an MLog node
C16_Witness ==
    /\ status = "returned"
    /\ input = Line(Flow(<<"m", "l", "o", "g">>, <<>>)) \o Line(<<"a", "/">>)
                 \o Line(Flow(<<"e", "n", "d", "m", "l", "o", "g">>, <<>>))
    /\ Len(returned.body) = 1
    /\ returned.body[1].type = "MLog"


----------------------------------------------------------------------------
(* C17: the `#` that closes a raw text *)

\* the characters of s before the first one that is in stop
Before(s, stop) ==
    LET at == {i \in 1..Len(s) : s[i] \in stop}
    IN  IF at = {} THEN s ELSE SubSeq(s, 1, (CHOOSE i \in at : \A j \in at : i <= j) - 1)

\* a line of raw text that holds nothing but whitespace
IsBlank(line) == \A i \in 1..Len(line) : line[i] \in whitespace_set

\* the first `#` after the header line of the raw block, 0 if there is none
FirstHash(text, block) ==
    IF Len(text) >= Len(block.header) /\ SubSeq(text, 1, Len(block.header)) = block.header
    THEN FirstAt(text, "#", Len(block.header) + 1)
    ELSE 0

\* the word that follows the `#` at position h
WordAfter(text, h) == Before(Drop(text, h), {" ", "\n", "#", "/", "\""})

\* C17: when the file is the header line of an mlog or rawfunc block, a raw text and a
\* `#`, the run ends with MProcStructureError if the `#` has a character other than
\* whitespace before it on its line, and otherwise the `#` closes the raw text, after
\* which a word that is not an end-word ends the run with an error.
C17_RawClosing ==
    \A block \in RawBlocks :
        LET h == FirstHash(input, block)
        IN  (status # "running" /\ h # 0) =>
                IF IsBlank(LastLine(SubSeq(input, Len(block.header) + 1, h - 1)))
                THEN /\ ~(status = "error" /\ diagnostic.kind = "MProcStructureError"
                          /\ diagnostic.line = line_end /\ pos = h)
                     /\ WordAfter(input, h) \notin DOMAIN block_end_operators
                            => status = "error"
                ELSE status = "error" /\ diagnostic.kind = "MProcStructureError"

\* the run on `#mlog`, `a#` has ended with MProcStructureError
C17_Witness ==
    /\ status = "error"
    /\ diagnostic.kind = "MProcStructureError"
    /\ input = Line(Flow(<<"m", "l", "o", "g">>, <<>>)) \o <<"a", "#">>


----------------------------------------------------------------------------
(* C18: named arguments *)

\* The calls of the language with named arguments, read from index i of the text:
\* as CallExpression, but an argument may be `name = value`, which stands for
\* Assignment(name, value); the value is a call expression.
RECURSIVE NamedCall(_, _), NamedSuffix(_, _, _), NamedArguments(_, _, _)
NamedCall(text, i) ==
    LET j == WordEnd(text, i)
    IN  IF j = i THEN NoExpression
        ELSE NamedSuffix(text, j, Shape(parse_token(P, SubSeq(text, i, j - 1))))

NamedSuffix(text, j, node) ==
    IF j <= Len(text) /\ text[j] = "("
    THEN LET a == NamedArguments(text, j + 1, <<>>)
         IN  IF a.ok THEN NamedSuffix(text, a.next, Call(0, 0, node, ArgumentsOf(a.node)))
             ELSE NoExpression
    ELSE [ok |-> TRUE, node |-> node, next |-> j]

NamedArguments(text, i, items) ==
    LET s == SkipBlanks(text, i)
        w == SkipBlanks(text, WordEnd(text, s))
        named == WordEnd(text, s) > s /\ w <= Len(text) /\ text[w] = "="
        name == Shape(parse_token(P, SubSeq(text, s, WordEnd(text, s) - 1)))
        e == IF named THEN NamedCall(text, SkipBlanks(text, w + 1)) ELSE NamedCall(text, s)
        item == IF named THEN Assignment(0, 0, name, e.node) ELSE e.node
        m == SkipBlanks(text, e.next)
    IN  IF ~e.ok \/ m > Len(text) THEN NoExpression
        ELSE IF named /\ name.type # "Token" THEN NoExpression
        ELSE IF text[m] = "," THEN NamedArguments(text, m + 1, Append(items, item))
        ELSE IF text[m] = ")"
        THEN [ok |-> TRUE, node |-> Append(items, item), next |-> m + 1]
        ELSE NoExpression

\* the file is one call with at least one named argument, closed by a line end or by
\* the end of the file
IsNamedCallStatement(text) ==
    LET e == NamedCall(Unterminated(text), 1)
    IN  /\ e.ok /\ e.next = Len(Unterminated(text)) + 1 /\ e.node.type = "Call"
        /\ \E i \in 1..Len(text) : text[i] = "="

NamedCallTree(text) == NamedCall(Unterminated(text), 1).node

\* C18: the parse of a file that is one call with named arguments returns the call
\* whose arguments hold an Assignment(name, value) for every `name = value` and, when
\* there are several arguments, are one flat List of the positional arguments and the
\* Assignments in the order of the text, the values being tokens, literals or calls.
C18_NamedArguments ==
    (status # "running" /\ IsNamedCallStatement(input))
        => /\ status = "returned"
           /\ Shape(returned).body = <<NamedCallTree(input)>>

\* the run on `f(k=g(x))`, a call whose only argument is named and has a call as its
\* value, has ended with a diagnostic
C18_Witness ==
    /\ status = "error"
    /\ input = <<"f", "(", "k", "=", "g", "(", "x", ")", ")">>
    /\ IsNamedCallStatement(input)
    /\ NamedCallTree(input).arguments.type = "Assignment"
    /\ NamedCallTree(input).arguments.rhs.type = "Call"
    /\ diagnostic.kind = "MProcParseError"


----------------------------------------------------------------------------
(* C19: the shape of the stack *)

\* the bottom of a stack that is not empty is the RootContext and no other frame is one
C19_RootAtBottom ==
    stack # <<>> =>
        /\ stack[1] = RootContext
        /\ \A i \in 2..Len(stack) : stack[i].kind # "RootContext"

\* a step that takes the RootContext from the stack leaves no frame behind and has
\* read the end of the file as its delimiter
C19_RootRemoval ==
    (stack # <<>> /\ (stack' = <<>> \/ stack'[1] # RootContext))
        => /\ stack' = <<>>
           /\ eof /\ pos' = Len(input)
           /\ NextPiece(P).delimiter = EOF

\* C19: whenever the stack is not empty its bottom frame is the one RootContext and no
\* other frame is a RootContext, and the RootContext leaves the stack only as its last
\* frame, in an iteration whose delimiter is the end of the file.
C19_StackShape == [](C19_RootAtBottom) /\ [][C19_RootRemoval]_vars

\* the file has been read to its end and the RootContext has left the stack after
\* three statements, the last of them closed by the end of the file
C19_Witness ==
    /\ status = "returned" /\ stack = <<>>
    /\ Len(returned.body) = 3
    /\ input # <<>> /\ input[Len(input)] # "\n"


----------------------------------------------------------------------------
(* C20: the position kept by read_symbol *)

\* the 1-based line of the k-th character of the text
LineOf(text, k) == 1 + Cardinality({i \in 1..(k - 1) : text[i] = "\n"})

\* the 1-based column of the k-th character of the text: its distance from the last
\* newline before it, a newline being the last character of the line it ends
ColumnOf(text, k) ==
    LET nl == {i \in 1..(k - 1) : text[i] = "\n"}
    IN  IF nl = {} THEN k ELSE k - (CHOOSE i \in nl : \A j \in nl : j <= i)

\* a call of read_symbol that returns a character leaves its line and column in
\* (line_end, symbol_end)
C20_CharacterPosition ==
    LET r == read_symbol(P)
    IN  r.c # EOF =>
            /\ pos' = pos + 1 /\ input[pos'] = r.c
            /\ line_end' = LineOf(input, pos')
            /\ symbol_end' = ColumnOf(input, pos')

\* the line counter moves, by one and with the column reset, in exactly the calls
\* that follow the return of a newline
C20_LazyLine ==
    LET r == read_symbol(P)
        after_newline == pos > 0 /\ input[pos] = "\n" /\ inc_line
    IN  /\ after_newline =>
              /\ line_end' = line_end + 1
              /\ symbol_end' = IF r.c # EOF THEN 1 ELSE 0
        /\ ~after_newline =>
              /\ line_end' = line_end
              /\ symbol_end' = symbol_end + (IF r.c # EOF THEN 1 ELSE 0)
        /\ inc_line' = (r.c = "\n")

\* C20: after read_symbol has returned a character other than the end of the file,
\* (line_end, symbol_end) is the 1-based line and column of that character, a newline
\* being the last column of the line it ends; the line counter is advanced and the
\* column reset only at the next call of read_symbol after a newline.
C20_ReaderPosition == [][C20_CharacterPosition /\ C20_LazyLine]_vars

\* a newline has been returned at (1, 2) and the line counter has not moved yet, the
\* next character of the file being a letter
C20_Witness ==
    /\ pos = 2 /\ input[1] = "a" /\ input[2] = "\n"
    /\ Len(input) > 2 /\ input[3] = "a"
    /\ line_end = 1 /\ symbol_end = 2 /\ inc_line


----------------------------------------------------------------------------
(* C21: reading past the end of the file *)

\* C21: a call of read_symbol that returns the end of the file does not increment the
\* column, and from the state it leaves every further call returns the end of the file
\* again and changes neither line_end, symbol_end nor the pending-newline flag.
C21_EOFIdempotent ==
    LET first == read_symbol(P)
        later == read_symbol(first.p)
    IN  (Running /\ first.c = EOF) =>
            /\ first.p.symbol_end = (IF inc_line THEN 0 ELSE symbol_end)
            /\ first.p.pos = pos
            /\ later.c = EOF
            /\ later.p.line_end = first.p.line_end
            /\ later.p.symbol_end = first.p.symbol_end
            /\ later.p.inc_line = first.p.inc_line
            /\ later.p = first.p

\* the end of a file whose last character is a newline has been returned: the line
\* counter has moved to the line after it and the column is 0
C21_Witness ==
    /\ Len(input) = 2 /\ input[1] = "a" /\ input[2] = "\n"
    /\ pos = 2 /\ ~inc_line
    /\ line_end = 2 /\ symbol_end = 0
    /\ read_symbol(P).c = EOF


----------------------------------------------------------------------------
(* C22: string mode of read_piece *)

\* the index of the first character of the text that read_piece does not skip under
\* the parameters of the context
RECURSIVE FirstRead(_, _, _)
FirstRead(text, i, context) ==
    IF /\ allow_spaces(context) /\ i <= Len(text)
       /\ \/ text[i] \in whitespace_set
          \/ endl_as_whitespace(context) /\ text[i] = "\n"
    THEN FirstRead(text, i + 1, context)
    ELSE i

\* the index of the first quote or newline of the text after index i, 0 if none
Closing(text, i) ==
    LET at == {j \in (i + 1)..Len(text) : text[j] \in {"\"", "\n"}}
    IN  IF at = {} THEN 0 ELSE CHOOSE j \in at : \A k \in at : j <= k

\* the character of the text at index i, the end of the file after its last one
CharAt(text, i) == IF i <= Len(text) THEN text[i] ELSE EOF

\* C22: when the first character that read_piece does not skip is a quote, the piece
\* is the text from that quote to the next one, both included, whatever lies between
\* them (delimiters of the context and `/` too), and the character after the closing
\* quote is consumed as the delimiter; a newline or the end of the file before the
\* closing quote raises MProcEOFError, and a character after the closing quote that
\* is not a delimiter of the context raises MProcInvalidStringLiteral at the position
\* of the opening quote.
C22_StringMode ==
    LET context == Top(P)
        open == FirstRead(input, pos + 1, context)
        close == Closing(input, open)
        after == CharAt(input, close + 1)
        r == NextPiece(P)
    IN  (Running /\ token_out # Delimiter(EOF) /\ CharAt(input, open) = "\"") =>
            IF close = 0 \/ input[close] = "\n"
            THEN Raised(r.p) /\ r.p.exc.kind = "MProcEOFError"
            ELSE IF after \in delimiters(context)
            THEN /\ ~Raised(r.p)
                 /\ r.piece = SubSeq(input, open, close)
                 /\ r.delimiter = after
                 /\ r.p.pos = IF after = EOF THEN close ELSE close + 1
            ELSE /\ Raised(r.p) /\ r.p.exc.kind = "MProcInvalidStringLiteral"
                 /\ r.p.exc.line = LineOf(input, open)
                 /\ r.p.exc.symbol = ColumnOf(input, open)

\* read_piece has returned the piece `",/"` with the newline as its delimiter
C22_Witness ==
    /\ Running
    /\ piece_in = <<"\"", ",", "/", "\"">>
    /\ token_out = Delimiter("\n")
    /\ pos = 5


----------------------------------------------------------------------------
(* C23: the end of a comment *)

\* The piece that starts at index i of the text under the parameters of the context,
\* read without string mode: the characters up to the first delimiter, those from a
\* `/` to the next newline left out.  At that newline the piece ends when the newline
\* is a delimiter of the context and either endl_as_whitespace is not set or the
\* piece is not empty; otherwise the piece goes on, after the blanks that follow the
\* newline when allow_spaces is set and with the newline itself when it is not.
\* [piece, delimiter, pos, comments]: pos is the index of the last character consumed
\* and comments the number of comments met.
RECURSIVE Accumulated(_, _, _, _, _)
Accumulated(text, i, context, piece, comments) ==
    IF i > Len(text)
    THEN [piece |-> piece, delimiter |-> EOF, pos |-> Len(text), comments |-> comments]
    ELSE IF text[i] \in delimiters(context)
    THEN [piece |-> piece, delimiter |-> text[i], pos |-> i, comments |-> comments]
    ELSE IF text[i] = "/"
    THEN LET newline == FirstAt(text, "\n", i)
         IN  IF newline = 0
             THEN [piece |-> piece, delimiter |-> EOF, pos |-> Len(text),
                   comments |-> comments + 1]
             ELSE IF /\ "\n" \in delimiters(context)
                     /\ ~endl_as_whitespace(context) \/ piece # <<>>
             THEN [piece |-> piece, delimiter |-> "\n", pos |-> newline,
                   comments |-> comments + 1]
             ELSE IF allow_spaces(context)
             THEN Accumulated(text, FirstRead(text, newline + 1, context), context,
                              piece, comments + 1)
             ELSE Accumulated(text, newline + 1, context, Append(piece, "\n"),
                              comments + 1)
    ELSE Accumulated(text, i + 1, context, Append(piece, text[i]), comments)

\* C23: when read_piece meets a `/` while it accumulates a piece, it leaves out the
\* characters up to the next newline; at that newline it returns the piece and the
\* newline if the newline is a delimiter of the context and endl_as_whitespace is
\* not set or the piece is not empty, and otherwise it goes on with the same piece
\* under the delimiters of the context, skipping the leading whitespace again when
\* allow_spaces is set.
C23_CommentEnd ==
    LET context == Top(P)
        first == FirstRead(input, pos + 1, context)
        expected == Accumulated(input, first, context, <<>>, 0)
        r == NextPiece(P)
    IN  (/\ Running /\ token_out # Delimiter(EOF)
         /\ CharAt(input, first) # "\""
         /\ expected.comments > 0) =>
            /\ ~Raised(r.p)
            /\ r.piece = expected.piece
            /\ r.delimiter = expected.delimiter
            /\ r.p.pos = expected.pos

\* under the parameters of a SkipSpacesContext that takes line ends for whitespace,
\* read_piece has gone past a comment and its newline and returned the piece `a` of
\* the next line
C23_Witness ==
    /\ Running
    /\ stack = <<SkipSpacesContext(None, TRUE)>>
    /\ input = <<"/", "a", "\n", " ", "a">>
    /\ piece_in = <<"a">>
    /\ token_out = Delimiter(EOF)


----------------------------------------------------------------------------
(* C24: two tokens in a row *)

IsWordCharacter(c) == c \notin ContextDelimiters \cup {"/", "\""}

\* the indices at which a token starts that follows another token with nothing but
\* whitespace between them
SecondTokens(text) ==
    {j \in 2..Len(text) :
        /\ IsWordCharacter(text[j]) /\ text[j - 1] \in whitespace_set
        /\ \E i \in 1..(j - 2) :
              /\ IsWordCharacter(text[i])
              /\ \A k \in (i + 1)..(j - 1) : text[k] \in whitespace_set}

\* the first of them
SecondToken(text) == CHOOSE j \in SecondTokens(text) : \A k \in SecondTokens(text) : j <= k

\* the text that ends with the token before the first second token
BeforeSecondToken(text) == Strip(SubSeq(text, 1, SecondToken(text) - 1))

\* the file starts, on its first line, with a statement `e1, ..., en` or
\* `l1, ..., lm = e1, ..., en` of operands in which a token follows the last operand
\* after whitespace only
HasConsecutiveTokens(text) ==
    /\ SecondTokens(text) # {}
    /\ LET sides == SplitOn(BeforeSecondToken(text), "=")
       IN  /\ Len(sides) <= 2
           /\ \A s \in 1..Len(sides) : AllOperands(Items(sides[s]))

\* C24: a token that follows another token after whitespace only, at statement
\* level, on a right-hand side or inside a list, ends the parse with MProcParseError
\* quoting the second token at its position; no tree is returned in which one of the
\* two tokens is missing or in which they are separate elements.
C24_ConsecutiveTokens ==
    (status # "running" /\ HasConsecutiveTokens(input)) =>
        LET j == SecondToken(input)
        IN  /\ status = "error"
            /\ diagnostic.kind = "MProcParseError"
            /\ diagnostic.arg = SubSeq(input, j, WordEnd(input, j) - 1)
            /\ diagnostic.line = 1 /\ diagnostic.symbol = j

\* the parse of `a,1 a` has returned a List of three elements
C24_Witness ==
    /\ status = "returned"
    /\ input = <<"a", ",", "1", " ", "a", "\n">>
    /\ HasConsecutiveTokens(input)
    /\ Len(returned.body) = 1 /\ returned.body[1].type = "List"
    /\ Len(returned.body[1].expressions) = 3


----------------------------------------------------------------------------
(* C25: the dispatch of a flow operator *)

\* the keywords, the family of each and the type of the node it opens, closes or
\* switches
Keywords ==
    {[word |-> <<"b", "r", "e", "a", "k">>, family |-> "SelfSufficient", type |-> "Break"],
     [word |-> <<"c", "o", "n", "t", "i", "n", "u", "e">>, family |-> "SelfSufficient", type |-> "Continue"],
     [word |-> <<"e", "n", "d">>, family |-> "SelfSufficient", type |-> "End"],
     [word |-> <<"s", "t", "o", "p">>, family |-> "SelfSufficient", type |-> "Stop"],
     [word |-> <<"i", "m", "p", "o", "r", "t">>, family |-> "ExpressionRequired", type |-> "Import"],
     [word |-> <<"w", "a", "i", "t">>, family |-> "ExpressionRequired", type |-> "Wait"],
     [word |-> <<"u", "s", "i", "n", "g">>, family |-> "ExpressionRequired", type |-> "Using"],
     [word |-> <<"v", "a", "r">>, family |-> "ExpressionRequired", type |-> "Var"],
     [word |-> <<"r", "e", "t", "u", "r", "n">>, family |-> "ExpressionAllowed", type |-> "Return"],
     [word |-> <<"d", "e", "f">>, family |-> "SimpleBlock", type |-> "Def"],
     [word |-> <<"i", "n", "i", "t">>, family |-> "SimpleBlock", type |-> "Init"],
     [word |-> <<"p", "r", "o", "g">>, family |-> "SimpleBlock", type |-> "Prog"],
     [word |-> <<"l", "i", "n", "k">>, family |-> "SimpleBlock", type |-> "Link"],
     [word |-> <<"e", "n", "d", "p", "r", "o", "g">>, family |-> "BlockEnd", type |-> "Prog"],
     [word |-> <<"e", "n", "d", "f", "u", "n", "c">>, family |-> "BlockEnd", type |-> "Func"],
     [word |-> <<"e", "n", "d", "r", "a", "w", "f", "u", "n", "c">>, family |-> "BlockEnd", type |-> "RawFunc"],
     [word |-> <<"e", "n", "d", "i", "f">>, family |-> "BlockEnd", type |-> "If"],
     [word |-> <<"e", "n", "d", "l", "o", "o", "p">>, family |-> "BlockEnd", type |-> "Loop"],
     [word |-> <<"e", "n", "d", "d", "e", "f">>, family |-> "BlockEnd", type |-> "Def"],
     [word |-> <<"e", "n", "d", "i", "n", "i", "t">>, family |-> "BlockEnd", type |-> "Init"],
     [word |-> <<"e", "n", "d", "m", "l", "o", "g">>, family |-> "BlockEnd", type |-> "MLog"],
     [word |-> <<"e", "n", "d", "e", "n", "u", "m">>, family |-> "BlockEnd", type |-> "Enum"],
     [word |-> <<"e", "n", "d", "l", "i", "n", "k">>, family |-> "BlockEnd", type |-> "Link"],
     [word |-> <<"i", "f">>, family |-> "BlockWithExpression", type |-> "If"],
     [word |-> <<"l", "o", "o", "p">>, family |-> "BlockWithExpression", type |-> "Loop"],
     [word |-> <<"e", "l", "s", "e">>, family |-> "BodySwitch", type |-> "If"],
     [word |-> <<"a", "f", "t", "e", "r">>, family |-> "BodySwitch", type |-> "Loop"],
     [word |-> <<"f", "u", "n", "c">>, family |-> "Function", type |-> "Func"],
     [word |-> <<"e", "n", "u", "m">>, family |-> "Function", type |-> "Enum"],
     [word |-> <<"r", "a", "w", "f", "u", "n", "c">>, family |-> "RawFunction", type |-> "RawFunc"],
     [word |-> <<"m", "l", "o", "g">>, family |-> "MLog", type |-> "MLog"]}

\* the context that follows a keyword read after the `#` at (line, symbol)
FollowUp(k, line, symbol) ==
    CASE k.family = "SelfSufficient" ->
           SelfSufficientFlowOperatorContext(Node0(k.type, line, symbol))
      [] k.family = "ExpressionRequired" ->
           ExpressionAllowedFlowOperatorContext(ExpressionNode(k.type, line, symbol, None),
                                                TRUE)
      [] k.family = "ExpressionAllowed" ->
           ExpressionAllowedFlowOperatorContext(ExpressionNode(k.type, line, symbol, None),
                                                FALSE)
      [] k.family = "SimpleBlock" ->
           SimpleBlockFlowOperatorContext(BodyNode(k.type, line, symbol, <<>>))
      [] k.family = "BlockEnd" -> BlockEndFlowOperatorContext(k.type, k.word)
      [] k.family = "BlockWithExpression" ->
           BlockWithExpressionFlowOperatorContext(
               TwoBodyNode(k.type, line, symbol, None, <<>>, <<>>))
      [] k.family = "BodySwitch" -> BodySwitchFlowOperatorContext(k.type, k.word)
      [] k.family = "Function" ->
           FunctionFlowOperatorContext(DefinitionNode(k.type, line, symbol, None, <<>>))
      [] k.family = "RawFunction" ->
           RawFunctionFlowOperatorContext(DefinitionNode(k.type, line, symbol, None, <<>>))
      [] k.family = "MLog" ->
           MLogBlockFlowOperatorContext(BodyNode(k.type, line, symbol, <<>>))

\* the iteration ends in the state q of the parser, or with the diagnostic q holds
EndsAs(q) ==
    IF Raised(q)
    THEN status' = "error" /\ diagnostic' = q.exc
    ELSE /\ stack' = q.stack /\ root' = q.root
         /\ status' = IF q.stack = <<>> THEN "returned" ELSE "running"

\* an iteration with an ExpectedFlowOperatorContext on top of the stack: the word
\* is the text after the `#` up to the first delimiter character
C25_DispatchStep ==
    (Running /\ Top(P).kind = "ExpectedFlowOperatorContext") =>
        LET word == Before(Drop(input, pos), ContextDelimiters)
            end == pos + Len(word) + 1
            terminator == CharAt(input, end)
            known == {k \in Keywords : k.word = word}
        IN  IF terminator \notin whitespace_set \cup {"\n", EOF}
            THEN /\ status' = "error" /\ diagnostic'.kind = "MProcParseError"
                 /\ diagnostic'.arg = <<terminator>>
            ELSE IF known = {}
            THEN /\ status' = "error"
                 /\ diagnostic'.kind = "MProcInvalidFlowOperatorError"
                 /\ diagnostic'.arg = word
            ELSE LET k == CHOOSE k \in known : TRUE
                     context == FollowUp(k, LineOf(input, pos), ColumnOf(input, pos))
                 IN  IF terminator \in whitespace_set
                     THEN /\ status' = "running" /\ pos' = end
                          /\ stack' = Append(Front(stack), context)
                          /\ root' = root
                     ELSE EndsAs(handle_piece(Push(Pop(NextPiece(P).p), context),
                                              <<>>, terminator))

\* C25: the word read directly after `#`, up to the whitespace, the line end or the
\* end of the file that ends it, puts the context of its family in the place of the
\* ExpectedFlowOperatorContext, which gets the empty piece at once when a line end or
\* the end of the file ended the word; a word that is no keyword, the empty word
\* too, raises MProcInvalidFlowOperatorError, and any other character at the end of
\* the word raises MProcParseError.
C25_FlowOperatorDispatch == [][C25_DispatchStep]_vars

\* `#loop` and a blank have been read: the context of a Loop block with an
\* expression stands in the place of the ExpectedFlowOperatorContext
C25_Witness ==
    /\ Running
    /\ input = Flow(<<"l", "o", "o", "p">>, <<" ">>)
    /\ pos = 6
    /\ stack = <<RootContext, NewStatementContext,
                 BlockWithExpressionFlowOperatorContext(
                     TwoBodyNode("Loop", 1, 1, None, <<>>, <<>>))>>


----------------------------------------------------------------------------
(* C26: the guard of the body switch *)

\* the frames of the open blocks, of every kind
BlockFrames == {k \in 1..Len(stack) : stack[k].kind \in BlockContextKinds}

\* the frame of the innermost open block, 0 when no block is open
Innermost ==
    IF BlockFrames = {} THEN 0 ELSE CHOOSE k \in BlockFrames : \A j \in BlockFrames : j <= k

\* the kind of block each switch word belongs to
SwitchWords == (<<"e", "l", "s", "e">> :> "If") @@ (<<"a", "f", "t", "e", "r">> :> "Loop")

\* the body2 flags of the frames that stay on the stack are what they were
FlagsUnchanged ==
    \A k \in 1..Len(stack') :
        (k <= Len(stack) /\ HasBody2(stack[k])) =>
            (HasBody2(stack'[k]) /\ stack'[k].body2 = stack[k].body2)

\* an iteration that reads the line of a switch word
C26_SwitchStep ==
    LET word == Before(Drop(input, pos), ContextDelimiters)
        b == Innermost
    IN  (/\ Running
         /\ Top(P).kind \in {"ExpectedFlowOperatorContext", "BlockEndOnlyContext"}
         /\ word \in DOMAIN SwitchWords
         /\ CharAt(input, pos + Len(word) + 1) = "\n") =>
            IF /\ b # 0
               /\ stack[b].kind = "BlockWithExpressionFlowOperatorContext"
               /\ stack[b].content.type = SwitchWords[word]
               /\ ~stack[b].body2
            THEN /\ status' = "running"
                 /\ Len(stack') >= b
                 /\ stack'[b] = [stack[b] EXCEPT !.body2 = TRUE]
                 /\ \A k \in 1..(b - 1) : stack'[k] = stack[k]
            ELSE /\ status' = "error"
                 /\ diagnostic'.kind = "MProcParseError"
                 /\ diagnostic'.arg = <<"#">> \o word
                 /\ FlagsUnchanged

\* C26: `#else` is accepted only when the innermost open block is an If whose body2
\* flag is not set, `#after` only when it is a Loop whose body2 flag is not set, and
\* the flag is set then; in every other situation (a second switch in the block, a
\* block of another kind, no open block) the run ends with MProcParseError quoting
\* the `#` and the switch word, and no flag changes.
C26_BodySwitchGuard == [][C26_SwitchStep]_vars

\* the second `#else` of an If block has ended the run with MProcParseError
C26_Witness ==
    /\ status = "error" /\ diagnostic.kind = "MProcParseError"
    /\ diagnostic.arg = <<"#", "e", "l", "s", "e">>
    /\ input = Line(Flow(<<"i", "f">>, <<" ", "a">>)) \o Line(Flow(<<"e", "l", "s", "e">>, <<>>))
                 \o Line(Flow(<<"e", "l", "s", "e">>, <<>>))
    /\ \E k \in 1..Len(stack) : HasBody2(stack[k]) /\ stack[k].body2


----------------------------------------------------------------------------
(* C27: the expression of import, wait, using, var and return *)

\* the first index from i on that holds no blank
RECURSIVE SkipBlanksOnly(_, _)
SkipBlanksOnly(text, i) ==
    IF i <= Len(text) /\ text[i] \in whitespace_set THEN SkipBlanksOnly(text, i + 1) ELSE i

\* the file starts with `#`, the keyword and blanks, and then comes a line end, the
\* end of the file or another delimiter: the keyword has no expression
LacksExpression(text, keyword) ==
    LET head == Flow(keyword, <<>>)
        next == SkipBlanksOnly(text, Len(head) + 1)
    IN  /\ Len(text) >= Len(head) /\ SubSeq(text, 1, Len(head)) = head
        /\ CharAt(text, Len(head) + 1) \in whitespace_set \cup {"\n", EOF}
        /\ CharAt(text, next) \in ContextDelimiters

\* the file is `#`, the keyword, blanks, and nothing else but the line end
IsBareKeyword(text, keyword) ==
    LET head == Flow(keyword, <<>>)
    IN  /\ Len(text) >= Len(head) /\ SubSeq(text, 1, Len(head)) = head
        /\ IsBlank(Drop(Unterminated(text), Len(head)))

\* C27: import, wait, using or var followed by no expression (a line end, the end of
\* the file or a delimiter after an empty piece) ends the run with
\* MProcTokenExpectedError, and no Import, Wait, Using or Var node of a returned tree
\* has the expression None; return without an expression is accepted and gives
\* Return(None).
C27_KeywordExpressions ==
    /\ \A k \in DOMAIN expression_required_operators :
          (status # "running" /\ LacksExpression(input, k)) =>
              /\ status = "error"
              /\ diagnostic.kind = "MProcTokenExpectedError"
              /\ diagnostic.line = 1
    /\ status = "returned" =>
          \A i \in 1..Len(NodesOf(returned)) :
              NodesOf(returned)[i].type \in {"Import", "Wait", "Using", "Var"}
                  => NodesOf(returned)[i].expression # None
    /\ (status # "running" /\ IsBareKeyword(input, <<"r", "e", "t", "u", "r", "n">>)) =>
          /\ status = "returned"
          /\ Shape(returned).body = <<ExpressionNode("Return", 0, 0, None)>>

\* the run on `#var`, a blank and a line end has ended with MProcTokenExpectedError
C27_Witness ==
    /\ status = "error"
    /\ diagnostic.kind = "MProcTokenExpectedError"
    /\ input = Flow(<<"v", "a", "r">>, <<" ", "\n">>)


----------------------------------------------------------------------------
(* C28: a `#` inside an expression *)

\* expressions in progress: a token at statement level, on a right-hand side, in a
\* list and in call arguments
StartedExpressions ==
    {<<"a">>, <<"a", "=", "a">>, <<"a", ",", "a">>, <<"a", "(", "a">>}

\* nothing, or a keyword that takes an expression and a blank
ExpressionHeads ==
    {<<>>} \cup
    {Flow(k, <<" ">>) :
        k \in DOMAIN expression_required_operators \cup DOMAIN expression_allowed_operators}

\* the file starts with an expression in progress, blanks, and a `#`
HashInExpression(text, heads) ==
    \E head \in heads : \E started \in StartedExpressions :
        LET before == head \o started
        IN  /\ Len(text) > Len(before)
            /\ SubSeq(text, 1, Len(before)) = before
            /\ CharAt(text, SkipBlanksOnly(text, Len(before) + 1)) = "#"

\* C28: a `#` that arrives while an expression is in progress (after a token at
\* statement level, on a right-hand side, in a list, in call arguments, or in the
\* expression of import, wait, using, var or return) ends the run with the
\* unexpected-flow-operator error MProcStructureError and with no other kind.
C28_HashInExpression ==
    (status # "running" /\ HashInExpression(input, ExpressionHeads)) =>
        /\ status = "error"
        /\ diagnostic.kind = "MProcStructureError"

\* the run on `#import a#` has ended with MProcParseError
C28_Witness ==
    /\ input = Flow(<<"i", "m", "p", "o", "r", "t">>, <<" ", "a", "#">>)
    /\ status = "error"
    /\ diagnostic.kind = "MProcParseError"
    /\ diagnostic.line = 1


----------------------------------------------------------------------------
(* C29: the left-hand side of a named argument *)

\* the arguments of a call, one by one
ArgumentsOfCall(call) ==
    IF call.arguments.type = "List" THEN call.arguments.expressions
    ELSE IF call.arguments.type = "None" THEN <<>>
    ELSE <<call.arguments>>

\* C29: in a returned tree every Assignment that is an argument of a Call, alone or as
\* an element of the argument List, has an identifier Token as its lhs; a literal or
\* a call before `=` inside call parentheses is rejected.
C29_NamedArgumentLhs ==
    status = "returned" =>
        \A i \in 1..Len(NodesOf(returned)) :
            LET node == NodesOf(returned)[i]
            IN  node.type = "Call" =>
                    \A k \in 1..Len(ArgumentsOfCall(node)) :
                        ArgumentsOfCall(node)[k].type = "Assignment"
                            => ArgumentsOfCall(node)[k].lhs.type = "Token"

\* the run on `f(1=a)` has returned the call of f with the argument Assignment(1, a)
C29_Witness ==
    /\ input = <<"f", "(", "1", "=", "a", ")">>
    /\ status = "returned"
    /\ Len(returned.body) = 1
    /\ returned.body[1].type = "Call"
    /\ returned.body[1].arguments.type = "Assignment"
    /\ returned.body[1].arguments.lhs.type = "NumericLiteral"


----------------------------------------------------------------------------
(* C30: the delivery of a node to the parent context *)

\* the calls of handle_child_content that delivered a node during run() on the file
Deliveries(file) == parse(file).delivered

\* C30: during a run every context object delivers a node to handle_child_content of
\* a parent at most once, and at the moment of each delivery the delivering context
\* is no longer on the stack and the receiving context is the top of the stack.
C30_ChildDelivery ==
    status # "running" =>
        Let(parse(input), LAMBDA run :
            /\ run.status = status
            /\ run.returned = returned
            /\ \A i \in 1..Len(run.delivered) :
                  LET d == run.delivered[i]
                  IN  /\ d.sender \in 1..run.born
                      /\ \A k \in 1..Len(d.ids) : d.ids[k] # d.sender
                      /\ d.ids # <<>> /\ d.receiver = Last(d.ids)
                      /\ \A j \in 1..Len(run.delivered) :
                            j # i => run.delivered[j].sender # d.sender)

\* the run on the lines `#def`, `a ` and `#enddef` has returned: the blanks after the
\* token, the statement, the def block and the statement that holds the block have
\* each delivered a node, the last of them to the root context
C30_Witness ==
    /\ input = Line(Flow(<<"d", "e", "f">>, <<>>)) \o <<"a", " ", "\n">>
                 \o Line(Flow(<<"e", "n", "d", "d", "e", "f">>, <<>>))
    /\ status = "returned"
    /\ Len(Deliveries(input)) = 4
    /\ [i \in 1..4 |-> Deliveries(input)[i].sender] = <<8, 7, 5, 3>>
    /\ Deliveries(input)[4].receiver = 1
    /\ Deliveries(input)[4].ids = <<1>>


----------------------------------------------------------------------------
(* C31: the order of the token classifier *)

DigitsOfBase(base) ==
    IF base = 2 THEN {"0", "1"}
    ELSE IF base = 10 THEN {"0", "1", "2", "3", "4", "5", "6", "7", "8", "9"}
    ELSE {"0", "1", "2", "3", "4", "5", "6", "7", "8", "9",
          "a", "b", "c", "d", "e", "f", "A", "B", "C", "D", "E", "F"}

\* digits of the base, with single underscores between them
IsDigitRun(d, base) ==
    /\ d # <<>>
    /\ \A i \in 1..Len(d) : d[i] \in DigitsOfBase(base) \cup {"_"}
    /\ d[1] # "_" /\ d[Len(d)] # "_"
    /\ \A i \in 1..(Len(d) - 1) : ~(d[i] = "_" /\ d[i + 1] = "_")

\* the text of an integer as the classifier reads it: base 16 after `0x`, base 2
\* after `0b`, base 10 (with a sign) otherwise
BaseOfText(piece) ==
    IF Len(piece) >= 2 /\ piece[1] = "0" /\ piece[2] = "x" THEN 16
    ELSE IF Len(piece) >= 2 /\ piece[1] = "0" /\ piece[2] = "b" THEN 2
    ELSE 10

IntegerDigits(piece) ==
    LET rest == SubSeq(piece, 3, Len(piece))
    IN  IF BaseOfText(piece) = 10
        THEN (IF piece[1] \in {"+", "-"} THEN Tail(piece) ELSE piece)
        ELSE (IF rest # <<>> /\ rest[1] = "_" THEN Tail(rest) ELSE rest)

IsIntegerText(piece) == piece # <<>> /\ IsDigitRun(IntegerDigits(piece), BaseOfText(piece))

\* the number the digits stand for
RECURSIVE ValueOfDigits(_, _)
ValueOfDigits(d, base) ==
    IF d = <<>> THEN 0
    ELSE IF d[Len(d)] = "_" THEN ValueOfDigits(SubSeq(d, 1, Len(d) - 1), base)
    ELSE ValueOfDigits(SubSeq(d, 1, Len(d) - 1), base) * base
         + (CHOOSE v \in 0..15 :
                d[Len(d)] \in {<<"0", "1", "2", "3", "4", "5", "6", "7", "8", "9",
                                 "a", "b", "c", "d", "e", "f">>[v + 1],
                               <<"0", "1", "2", "3", "4", "5", "6", "7", "8", "9",
                                 "A", "B", "C", "D", "E", "F">>[v + 1]})

IntegerOfText(piece) ==
    (IF piece[1] = "-" THEN -1 ELSE 1) * ValueOfDigits(IntegerDigits(piece), BaseOfText(piece))

\* the text of a float: a sign, digits with a point among them, an exponent; or the
\* words inf, infinity and nan.  A point at the end of the piece is dropped first.
IsFloatText(piece) ==
    LET s == IF piece[Len(piece)] = "." THEN SubSeq(piece, 1, Len(piece) - 1) ELSE piece
        u == IF s # <<>> /\ s[1] \in {"+", "-"} THEN Tail(s) ELSE s
        IsMantissa(m) ==
            \/ IsDigitRun(m, 10)
            \/ \E k \in 1..Len(m) :
                  /\ m[k] = "."
                  /\ Len(m) > 1
                  /\ k = 1 \/ IsDigitRun(SubSeq(m, 1, k - 1), 10)
                  /\ k = Len(m) \/ IsDigitRun(SubSeq(m, k + 1, Len(m)), 10)
        IsExponent(x) ==
            IsDigitRun(IF x # <<>> /\ x[1] \in {"+", "-"} THEN Tail(x) ELSE x, 10)
    IN  \/ u \in {<<"i", "n", "f">>, <<"n", "a", "n">>,
                  <<"i", "n", "f", "i", "n", "i", "t", "y">>}
        \/ IsMantissa(u)
        \/ \E k \in 1..Len(u) :
              /\ u[k] \in {"e", "E"}
              /\ IsMantissa(SubSeq(u, 1, k - 1))
              /\ IsExponent(SubSeq(u, k + 1, Len(u)))

IsQuoted(piece) == piece # <<>> /\ piece[1] = "\"" /\ piece[Len(piece)] = "\""

\* C31: parse_token raises MProcTokenExpectedError on the empty piece; a piece that
\* begins and ends with a quote gives the StringLiteral of the text between the quotes;
\* otherwise a piece that is an integer in base 16 (after 0x), base 2 (after 0b) or
\* base 10 gives the NumericLiteral of that integer; otherwise, when the piece is no
\* number at all, it gives the Token whose name is the piece unchanged; and a
\* non-empty piece always gives one of these three nodes.
C31_ClassifierOrder ==
    token_out # None =>
        /\ piece_in = <<>> =>
              token_out = exception(P, "MProcTokenExpectedError", <<>>)
        /\ piece_in # <<>> =>
              /\ token_out.type \in {"StringLiteral", "NumericLiteral", "Token"}
              /\ token_out.line = line_start /\ token_out.symbol = symbol_start
              /\ token_out.type = "StringLiteral" <=> IsQuoted(piece_in)
              /\ IsQuoted(piece_in) =>
                    token_out.value = SubSeq(piece_in, 2, Len(piece_in) - 1)
              /\ (~IsQuoted(piece_in) /\ IsIntegerText(piece_in)) =>
                    /\ token_out.type = "NumericLiteral"
                    /\ token_out.value = IntValue(IntegerOfText(piece_in))
              /\ token_out.type = "Token" <=>
                    /\ ~IsQuoted(piece_in)
                    /\ ~IsIntegerText(piece_in)
                    /\ ~IsFloatText(piece_in)
              /\ token_out.type = "Token" => token_out.name = piece_in

\* the quoted digit "1" has been classified as the StringLiteral of 1, not as a number
C31_Witness ==
    /\ piece_in = <<"\"", "1", "\"">>
    /\ token_out = StringLiteral(line_start, symbol_start, <<"1">>)


----------------------------------------------------------------------------
(* C32: run() terminates *)

\* What the next step of a run that has not ended does.  A read that needs more of
\* the file gets it or learns that the file has ended.  An iteration of run() that
\* starts before the end of the file reads at least one character; one that starts
\* at the end of the file reads nothing and ends the run or leaves the stack shorter
\* than it found it.
C32_Progress ==
    status = "running" =>
        IF NeedMore THEN ~eof
        ELSE Let(Iteration(P), LAMBDA q :
                 /\ pos < Len(input) => q.pos > pos
                 /\ pos = Len(input) =>
                       /\ eof
                       /\ q.pos = pos
                       /\ q.status # "running" \/ Len(q.stack) < Len(stack))

\* C32: on every finite file run() terminates: every iteration that starts before the
\* end of the file consumes at least one character, every iteration at the end of the
\* file ends the run or shortens the stack, and so the run ends (a tree is returned
\* or an error is raised).
C32_Termination ==
    /\ <>(status # "running")
    /\ [](C32_Progress)

\* run() has returned after two iterations at the end of the file `a`, line end: the
\* first iteration consumed the whole file, the next two emptied the stack
C32_Witness ==
    /\ input = <<"a", "\n">>
    /\ eof
    /\ status = "returned"
    /\ pos = 2
    /\ stack = <<>>


----------------------------------------------------------------------------
(* C33: only diagnostics escape *)

\* C33: whatever the file, a run ends by returning or with one of the six diagnostic
\* kinds (MProcParseError and its subclasses); it never ends with another exception,
\* such as an attribute access on a None token or a pop of the empty stack.
C33_OnlyDiagnostics ==
    /\ status # "crash"
    /\ status = "error" => diagnostic.kind \in ParseErrorKinds
    /\ status \in {"running", "returned"} => diagnostic = None

\* the run on `f(a,=a` has ended with an AttributeError
C33_Witness ==
    /\ input = <<"f", "(", "a", ",", "=", "a">>
    /\ status = "crash"
    /\ diagnostic.kind = "AttributeError"
    /\ exit_status = 1

----------------------------------------------------------------------------
(* C34: assertion validity *)

\* the contexts whose handle_child_content is `assert 0`
ChildlessKinds ==
    {"SkipSpacesContext", "ExpectedFlowOperatorContext", "BlockEndOnlyContext",
     "SelfSufficientFlowOperatorContext", "BlockEndFlowOperatorContext",
     "BodySwitchFlowOperatorContext", "MustBeArrowContext", "MLogContext"}

\* the contexts that pop the frame below themselves
FramePoppingKinds == {"BlockEndFlowOperatorContext", "BodySwitchFlowOperatorContext"}

\* C34: no assert of the contexts fails: no run ends with an AssertionError; between
\* two iterations of run(), a BlockEnd or BodySwitch frame lies directly on a
\* NewStatementContext, a context that may not have children is on top of the stack
\* (no child can deliver to it), and an MLogEndContext is never on top of the stack
\* (the only piece it is handed is the one MLogContext hands it, with the `#`).
C34_AssertionValidity ==
    /\ status = "crash" => diagnostic.kind # "AssertionError"
    /\ \A i \in 1..Len(stack) :
          /\ stack[i].kind \in FramePoppingKinds =>
                i > 1 /\ IsNewStatementContext(stack[i - 1])
          /\ stack[i].kind \in ChildlessKinds => i = Len(stack)
          /\ stack[i].kind = "MLogEndContext" => i < Len(stack)

\* the `#` that ends the body of an mlog block was handed to MLogEndContext, and the
\* BlockEnd frame of `endmlog` lies on it, about to pop it
C34_Witness ==
    /\ input = <<"#", "m", "l", "o", "g", "\n", "#", "e", "n", "d", "m", "l", "o", "g", " ">>
    /\ status = "running"
    /\ Len(stack) > 1
    /\ stack[Len(stack)].kind = "BlockEndFlowOperatorContext"
    /\ stack[Len(stack) - 1].kind = "MLogEndContext"

----------------------------------------------------------------------------
(* C35: parentheses are balanced in accepted input *)

\* the open parentheses that are not closed after n characters of text
OpenAfter(text, n) ==
    CountOf(SubSeq(text, 1, n), "(") - CountOf(SubSeq(text, 1, n), ")")

\* the places of text with a `)` that has no open `(` to close
StrayClosings(text) == {i \in 1..Len(text) : OpenAfter(text, i) < 0}

\* the first of them
FirstStrayClosing(text) ==
    CHOOSE i \in StrayClosings(text) : \A j \in StrayClosings(text) : i <= j

\* every `)` closes an open `(` and every `(` is closed
Balanced(text) == StrayClosings(text) = {} /\ OpenAfter(text, Len(text)) = 0

\* C35: in a file without string literals, comments and raw bodies, a run that stops on
\* the first `)` that has no open call to close stops with the unexpected-symbol error
\* for `)`, and a run returns a tree only if the parentheses of the file are balanced.
C35_BalancedParentheses ==
    /\ status = "returned" => Balanced(input)
    /\ (/\ status # "running"
        /\ StrayClosings(input) # {}
        /\ pos = FirstStrayClosing(input))
       => /\ status = "error"
          /\ diagnostic.kind = "MProcParseError"
          /\ diagnostic.arg = <<")">>

\* the run on the file `)` has ended with the token-expected error
C35_Witness ==
    /\ input = <<")">>
    /\ pos = 1
    /\ status = "error"
    /\ diagnostic.kind = "MProcTokenExpectedError"
    /\ diagnostic.line = 1 /\ diagnostic.symbol = 1

----------------------------------------------------------------------------
(* C36: successful completion implies full consumption *)

\* the line opens a block
IsOpeningLine(line) ==
    \/ IsWordLine(line, DOMAIN simple_block_operators)
    \/ IsHeaderLine(line, block_with_expression_operators)

\* the line closes a block
IsClosingLine(line) == IsWordLine(line, DOMAIN block_end_operators)

\* The numbers of the lines on which a top-level statement starts, from line i on:
\* the lines outside every block that are not blank, an opening line included.
RECURSIVE TopLevelLines(_, _, _, _)
TopLevelLines(lines, i, depth, acc) ==
    IF i > Len(lines) THEN acc
    ELSE LET line == lines[i]
             here == IF depth = 0 /\ line # <<>> THEN Append(acc, i) ELSE acc
         IN  IF IsOpeningLine(line) THEN TopLevelLines(lines, i + 1, depth + 1, here)
             ELSE IF IsClosingLine(line) THEN TopLevelLines(lines, i + 1, depth - 1, acc)
             ELSE IF IsWordLine(line, DOMAIN body_switch_operators)
             THEN TopLevelLines(lines, i + 1, depth, acc)
             ELSE TopLevelLines(lines, i + 1, depth, here)

\* C36: when run() has returned the tree, the whole file has been read (the reader
\* stands after its last character and has met the end of the file), the stack of
\* contexts is empty, the tree returned is the root, and the body of the root holds
\* one node for every top-level statement, in the order of the lines they start on.
C36_FullConsumption ==
    status = "returned" =>
        /\ eof /\ pos = Len(input)
        /\ stack = <<>>
        /\ returned = root
        /\ LET starts == TopLevelLines(Lines(input), 1, 0, <<>>)
           IN  /\ Len(root.body) = Len(starts)
               /\ \A k \in 1..Len(starts) :
                     /\ root.body[k].line = starts[k]
                     /\ root.body[k].symbol = 1

\* the file `a`, an if block with a statement in it, and `a` has been parsed to three
\* nodes, on the lines 1, 2 and 5
C36_Witness ==
    /\ input = <<"a", "\n", "#", "i", "f", " ", "a", "\n", "a", "\n",
                 "#", "e", "n", "d", "i", "f", "\n", "a", "\n">>
    /\ status = "returned"
    /\ pos = 19 /\ stack = <<>>
    /\ Len(root.body) = 3
    /\ root.body[2].type = "If" /\ Len(root.body[2].body) = 1
    /\ root.body[3].line = 5

----------------------------------------------------------------------------
(* C37: delimiter membership *)

\* the call of read_piece that is due reads the piece in exact-symbols mode
ExactMode == exact_symbols(Top(P)) # 0

\* the call of read_piece that is due reads a string literal
StringMode == CharAt(input, FirstRead(input, pos + 1, Top(P))) = "\""

\* C37: the pair (piece, delimiter) that read_piece returns to the context on top of
\* the stack.  In normal mode the delimiter is in the delimiter set of the context, a
\* set that holds the end-of-file marker; the delimiter is the last character read, or
\* the whole file has been read when it is the end-of-file marker; and a piece that is
\* not a string literal holds no character of the set.  In exact-symbols mode the
\* delimiter is None and the piece is the next exact_symbols characters of the file,
\* fewer at its end.
C37_DelimiterMembership ==
    LET context == Top(P)
        r == NextPiece(P)
    IN  (Running /\ stack # <<>> /\ ~r.more /\ ~Raised(r.p)) =>
            IF ExactMode
            THEN /\ r.delimiter = NoDelim
                 /\ Len(r.piece) <= exact_symbols(context)
                 /\ r.piece = SubSeq(input, pos + 1, r.p.pos)
                 /\ r.p.pos = pos + exact_symbols(context) \/ r.p.pos = Len(input)
            ELSE /\ EOF \in delimiters(context)
                 /\ r.delimiter \in delimiters(context)
                 /\ r.p.pos >= pos
                 /\ IF r.delimiter = EOF THEN r.p.pos = Len(input)
                    ELSE r.p.pos > pos /\ input[r.p.pos] = r.delimiter
                 /\ ~StringMode =>
                        \A i \in 1..Len(r.piece) : r.piece[i] \notin delimiters(context)

\* after the `-` that follows a function header the context that expects the rest of
\* the arrow is on top of the stack, and read_piece returns the one character `>` with
\* no delimiter
C37_Witness ==
    /\ Running /\ stack # <<>>
    /\ Top(P).kind = "MustBeArrowContext"
    /\ ~NextPiece(P).more
    /\ NextPiece(P).piece = <<">">>
    /\ NextPiece(P).delimiter = NoDelim
    /\ NextPiece(P).p.pos = pos + 1

====
